---- MODULE Spec2Model ----
(***************************************************************************)
(* A model of the workflow execution engine of src/src/engine/             *)
(* workflow_engine.py: WorkflowEngine.run, WorkflowEngine._execute_step,   *)
(* the action handlers and the two loop handlers.  The browser driver is   *)
(* an opaque collaborator: what a call into it yields (an element is       *)
(* visible or not, a wait times out, a call raises) is a nondeterministic  *)
(* choice made where the handler makes the call.                           *)
(***************************************************************************)
EXTENDS Integers, Sequences, FiniteSets, TLC

VARIABLES
    steps,          \* self.workflow['steps'], fixed after load
    env_vars,       \* self.env_vars
    pc,             \* position inside run(): "start", "loop", "in_loop", "done"
    current_index,  \* run(): current_index, 0-based as in the code
    final_status,   \* run(): final_status
    state,          \* self.state, a WorkflowState
    events,         \* self.report.events
    loop,           \* the locals of the loop handler in flight
    dispatched,     \* history: ids of the steps handed to _execute_step, in order
    last,           \* history: the step and handler outcome of the latest dispatch
    app,            \* app.py: workflow_running, workflow_task and the chain tasks
    call            \* history: the latest call of _store_variable, _resolve_variable
                    \* or _execute_step made on the engine from outside run()

\* what one WorkflowEngine and its run hold
engine_vars == <<steps, env_vars, pc, current_index, final_status, state, events,
                 loop, dispatched, last, call>>

vars == <<steps, env_vars, pc, current_index, final_status, state, events,
          loop, dispatched, last, app, call>>

-----------------------------------------------------------------------------
(* Bounds of the model.                                                    *)

\* length kept of completed_steps, errors and the dispatch history
MaxLog == 3
\* length kept of the report's event stream
MaxEvents == 6
\* most items a page lists
MaxItems == 2

-----------------------------------------------------------------------------
(* Values.                                                                 *)

\* Python's None, as a step id / jump target / return value
None == "None"

\* a step id that names no step of any definition
Missing == "Z"

\* a variable that is not in the store (dict.get(key, '') yields '')
Unset == [t |-> "unset"]

Str(s) == [t |-> "str", s |-> s]

\* a text read from the page or the store, seen through the date formats
\* _parse_date knows: fmt says which strptime format the text has the shape of
Text(fmt, d, m, y) == [t |-> "text", fmt |-> fmt, d |-> d, m |-> m, y |-> y]

\* appending to a list of which the model keeps the first n entries
Keep(s, x, n) == IF Len(s) < n THEN Append(s, x) ELSE s

-----------------------------------------------------------------------------
(* The step definition: a dict read with step.get(key, default).           *)

\* the keys of the handlers dict of _execute_step
Handlers == {"goto", "fill", "press_key", "click", "ensure_checked",
             "batch_ensure_checked", "deselect_all_columns", "select_columns",
             "check_url", "wait_for_url", "wait_for_selector",
             "wait_for_download", "capture_state", "scrape",
             "manual_intervention", "read_input", "read_text",
             "loop_elements", "loop_vat_returns", "click_and_download",
             "execute_script", "validate_filters"}

LoopHandlers == {"loop_elements", "loop_vat_returns"}

\* an action kind that is no key of the handlers dict
UnknownAction == "hover"

\* a step with every optional key absent (the defaults of step.get)
StepDef(id, action) ==
    [id |-> id, action |-> action, optional |-> FALSE,
     on_error |-> None, on_timeout |-> None,
     conditions |-> <<>>, default_step |-> None,
     fail_on_error |-> FALSE, wait_for_url |-> FALSE,
     save_as |-> None, save_to |-> FALSE,
     filter_date_from |-> None, reverse_order |-> TRUE,
     date_field_selector |-> FALSE, action_selector |-> FALSE,
     sub_steps |-> <<>>]

-----------------------------------------------------------------------------
(* What a handler hands back to _execute_step.                             *)

\* the handler returned target (None: fall through), having stored `stores`
\* (a sequence of <<key, value>>) and logged `logged` to the report; failed
\* says whether the step's action failed on the way (history, not code state)
Ret(target, stores, logged) ==
    [kind |-> "return", target |-> target, stores |-> stores, logged |-> logged,
     failed |-> FALSE]

\* the action failed and the handler returned target all the same
Absorbed(target, stores) ==
    [kind |-> "return", target |-> target, stores |-> stores, logged |-> <<>>,
     failed |-> TRUE]

\* the handler raised StepFailedError
Failed ==
    [kind |-> "StepFailedError", target |-> None, stores |-> <<>>, logged |-> <<>>,
     failed |-> TRUE]

\* the handler raised another Exception (a driver call outside any try)
Raised ==
    [kind |-> "Exception", target |-> None, stores |-> <<>>, logged |-> <<>>,
     failed |-> TRUE]

Ok == Ret(None, <<>>, <<>>)

\* the tail shared by the handlers that try selectors in turn: no selector
\* matched, so raise unless the step is optional, else return step[key]
UnlessOptional(step, target) ==
    IF ~step.optional THEN Failed ELSE Absorbed(target, <<>>)

-----------------------------------------------------------------------------
(* Dates.                                                                  *)

\* the result None of _parse_date
NoDate == [y |-> 0, m |-> 0, d |-> 0]

IsLeap(y) == (y % 4 = 0 /\ y % 100 # 0) \/ y % 400 = 0

DaysInMonth(m, y) ==
    IF m = 2 THEN (IF IsLeap(y) THEN 29 ELSE 28)
    ELSE IF m \in {4, 6, 9, 11} THEN 30 ELSE 31

\* the formats list of _parse_date, in the shape tags of Text
DateFormats == {"d b Y", "d B Y", "Y-m-d", "d/m/Y"}

\* datetime.strptime over the four formats: the first format the text has the
\* shape of gives the date when day and month exist, otherwise None
_parse_date(date_str) ==
    IF /\ date_str.t = "text"
       /\ date_str.fmt \in DateFormats
       /\ date_str.m \in 1..12
       /\ date_str.y \in 1..9999
       /\ date_str.d \in 1..DaysInMonth(date_str.m, date_str.y)
    THEN [y |-> date_str.y, m |-> date_str.m, d |-> date_str.d]
    ELSE NoDate

\* a <= b where the code has a < b
DateNotAfter(a, b) ==
    \/ a.y < b.y
    \/ a.y = b.y /\ a.m < b.m
    \/ a.y = b.y /\ a.m = b.m /\ a.d <= b.d

\* datetime's a < b
DateLess(a, b) ==
    \/ a.y < b.y
    \/ a.y = b.y /\ a.m < b.m
    \/ a.y = b.y /\ a.m = b.m /\ a.d < b.d

\* text[' - ' split][0 or 1] handed to _parse_date; the model's page texts
\* hold one date, so both modes parse the text itself
_extract_date_from_range(text) == _parse_date(text)

-----------------------------------------------------------------------------
(* The variable store and the resolver.                                    *)

\* the variable names the modelled workflows use
EngineKeys == {"selected_client", "financial_year_start_date", "company_name",
               "downloaded_file", "validation_result", "captured_url",
               "loop_processed_count", "vat_return_period",
               "vat_return_start_date", "vat_return_end_date",
               "vat_return_progress"}

\* names a caller of _store_variable or a template may use besides
StoreKeys == {"Report_DATE", "candidate", "status", "TaxYear", "start"}

Keys == EngineKeys \cup StoreKeys

\* a key, character by character
Spelling(key) ==
    CASE key = "selected_client" ->
            <<"s", "e", "l", "e", "c", "t", "e", "d", "_", "c", "l", "i", "e", "n", "t">>
      [] key = "financial_year_start_date" ->
            <<"f", "i", "n", "a", "n", "c", "i", "a", "l", "_", "y", "e", "a", "r", "_", "s", "t", "a", "r", "t", "_", "d", "a", "t", "e">>
      [] key = "company_name" ->
            <<"c", "o", "m", "p", "a", "n", "y", "_", "n", "a", "m", "e">>
      [] key = "downloaded_file" ->
            <<"d", "o", "w", "n", "l", "o", "a", "d", "e", "d", "_", "f", "i", "l", "e">>
      [] key = "validation_result" ->
            <<"v", "a", "l", "i", "d", "a", "t", "i", "o", "n", "_", "r", "e", "s", "u", "l", "t">>
      [] key = "captured_url" ->
            <<"c", "a", "p", "t", "u", "r", "e", "d", "_", "u", "r", "l">>
      [] key = "loop_processed_count" ->
            <<"l", "o", "o", "p", "_", "p", "r", "o", "c", "e", "s", "s", "e", "d", "_", "c", "o", "u", "n", "t">>
      [] key = "vat_return_period" ->
            <<"v", "a", "t", "_", "r", "e", "t", "u", "r", "n", "_", "p", "e", "r", "i", "o", "d">>
      [] key = "vat_return_start_date" ->
            <<"v", "a", "t", "_", "r", "e", "t", "u", "r", "n", "_", "s", "t", "a", "r", "t", "_", "d", "a", "t", "e">>
      [] key = "vat_return_end_date" ->
            <<"v", "a", "t", "_", "r", "e", "t", "u", "r", "n", "_", "e", "n", "d", "_", "d", "a", "t", "e">>
      [] key = "vat_return_progress" ->
            <<"v", "a", "t", "_", "r", "e", "t", "u", "r", "n", "_", "p", "r", "o", "g", "r", "e", "s", "s">>
      [] key = "Report_DATE" ->
            <<"R", "e", "p", "o", "r", "t", "_", "D", "A", "T", "E">>
      [] key = "candidate" ->
            <<"c", "a", "n", "d", "i", "d", "a", "t", "e">>
      [] key = "status" ->
            <<"s", "t", "a", "t", "u", "s">>
      [] key = "TaxYear" ->
            <<"T", "a", "x", "Y", "e", "a", "r">>
      [] key = "start" ->
            <<"s", "t", "a", "r", "t">>

UpperLetters == <<"A", "B", "C", "D", "E", "F", "G", "H", "I", "J", "K", "L", "M",
                  "N", "O", "P", "Q", "R", "S", "T", "U", "V", "W", "X", "Y", "Z">>

LowerLetters == <<"a", "b", "c", "d", "e", "f", "g", "h", "i", "j", "k", "l", "m",
                  "n", "o", "p", "q", "r", "s", "t", "u", "v", "w", "x", "y", "z">>

\* str.lower() on a sequence of characters
Lower(chars) ==
    [i \in 1..Len(chars) |->
        IF \E k \in 1..26 : UpperLetters[k] = chars[i]
        THEN LowerLetters[CHOOSE k \in 1..26 : UpperLetters[k] = chars[i]]
        ELSE chars[i]]

\* Python's `word in chars` for strings
Contains(chars, word) ==
    \E i \in 0..(Len(chars) - Len(word)) :
       \A j \in 1..Len(word) : chars[i + j] = word[j]

filter_keywords ==
    {<<"d", "a", "t", "e">>, <<"p", "e", "r", "i", "o", "d">>,
     <<"y", "e", "a", "r">>, <<"c", "l", "i", "e", "n", "t">>,
     <<"c", "o", "m", "p", "a", "n", "y">>, <<"c", "o", "l", "u", "m", "n">>}

\* the keyword test on the key as it is written, without key.lower()
IsFilterKeyCased(key) ==
    \E kw \in filter_keywords : Contains(Spelling(key), kw)

\* the keys for which any(kw in key.lower() for kw in filter_keywords)
FilterKeys ==
    {key \in Keys : \E kw \in filter_keywords : Contains(Lower(Spelling(key)), kw)}

IsFilterKey(key) == key \in FilterKeys

\* a callback is not set, returns, or raises an Exception
Callbacks == {"none", "returns", "raises"}

\* the callback's exception leaves the emitter
AwaitUnguarded(callback) == IF callback = "raises" THEN "raises" ELSE "returns"

\* `if callback: try: await callback(...) except Exception: pass`: how the
\* emitter ends
AwaitCallback(callback) == "returns"

\* _emit_log, after the logger call
_emit_log(callback) == AwaitCallback(callback)

_emit_variables(callback) == AwaitCallback(callback)

\* report.log_filter(key, str(value))
FilterEvent(key, value) == [type |-> "filter", filter_name |-> key, value |-> value]

\* _store_variable on a <<variables, events>> pair
_store_variable(ve, key, value) ==
    <<[ve[1] EXCEPT ![key] = value],
      IF IsFilterKey(key) THEN Keep(ve[2], FilterEvent(key, value), MaxEvents)
      ELSE ve[2]>>

\* _store_variable with the variable callback in view: the pair after it,
\* whether an exception leaves it, and how often the callback was called
StoreNotifying(ve, key, value, callback) ==
    IF _emit_variables(callback) = "raises"
    THEN [ve |-> <<[ve[1] EXCEPT ![key] = value], ve[2]>>, raised |-> TRUE,
          notified |-> 1]
    ELSE [ve |-> _store_variable(ve, key, value), raised |-> FALSE,
          notified |-> IF callback = "none" THEN 0 ELSE 1]

\* a call that raised has no result
NoResult == [t |-> "none"]

\* the replacement function of re.sub handed back a value: re.sub raises
\* TypeError unless it is a str
Substituted(value) ==
    IF value.t = "int" THEN [raised |-> TRUE, result |-> NoResult]
    ELSE [raised |-> FALSE, result |-> value]

RECURSIVE StoreAll(_, _)
\* the stores of a handler, applied in order
StoreAll(ve, stores) ==
    IF stores = <<>> THEN ve
    ELSE StoreAll(_store_variable(ve, stores[1][1], stores[1][2]), Tail(stores))

\* _resolve_variable on the template "${name}": the environment first, then
\* the store, else ''
ResolveName(name) ==
    IF env_vars[name] # Unset THEN env_vars[name]
    ELSE IF state.variables[name] # Unset THEN state.variables[name]
    ELSE Text("empty", 0, 0, 0)

\* _resolve_variable on the template "${name}"
_resolve_variable(name) == Substituted(ResolveName(name))

-----------------------------------------------------------------------------
(* The action handlers other than the loops: the set of outcomes the page  *)
(* can make the handler produce for a step.                                *)

\* the texts an element of the page may hold
PageTexts == {Text("d b Y", 1, 4, 2024), Text("other", 0, 0, 0)}

\* page.goto inside try: any failure returns on_error
_execute_goto(step) == {Ok, Absorbed(step.on_error, <<>>)}

_execute_fill(step) == {Ok, UnlessOptional(step, step.on_error)}

_execute_press_key(step) == {Ok, UnlessOptional(step, step.on_error)}

_execute_click(step) == {Ok, UnlessOptional(step, step.on_error)}

\* conditions are tried in order; the page's URL matches any subset of them
_execute_check_url(step) ==
    {Ret(step.conditions[i], <<>>, <<>>) : i \in 1..Len(step.conditions)}
        \cup {Ret(step.default_step, <<>>, <<>>)}

\* the tail returning step.get('on_error')
WaitForUrlOnError(step) == {Ok, UnlessOptional(step, step.on_error)}

\* a pattern's wait returns (return None), or every wait raises
_execute_wait_for_url(step) == {Ok, UnlessOptional(step, step.on_timeout)}

\* screenshot and content are called outside any try
_execute_capture_state(step) ==
    {Ret(None, IF step.save_as = None THEN <<>>
               ELSE <<<<step.save_as, Str("url")>>>>, <<>>),
     Raised}

\* only the write of save_to is outside any try
_execute_scrape(step) == {Ok} \cup (IF step.save_to THEN {Raised} ELSE {})

\* page.wait_for_url is called outside any try: its timeout is no
\* StepFailedError
_execute_manual_intervention(step) ==
    {Ok} \cup (IF step.wait_for_url THEN {Raised} ELSE {})

_execute_ensure_checked(step) == {Ok, UnlessOptional(step, step.on_error)}

\* checkboxes that are not found are counted and the handler returns None
_execute_batch_ensure_checked(step) == {Ok, Absorbed(None, <<>>)}

\* page.evaluate is called outside any try
_execute_deselect_all_columns(step) == {Ok, Raised}

\* page.evaluate is called outside any try; failed_count > 0 raises unless
\* optional and otherwise still returns None
_execute_select_columns(step) ==
    {Ok, Raised, IF ~step.optional THEN Failed ELSE Absorbed(None, <<>>)}

_execute_wait_for_selector(step) == {Ok, UnlessOptional(step, step.on_timeout)}

_execute_read_input(step) ==
    {Ret(None, IF step.save_as = None THEN <<>>
               ELSE <<<<step.save_as, v>>>>, <<>>) :
        v \in PageTexts \cup {Text("empty", 0, 0, 0)}}
        \cup {UnlessOptional(step, step.on_error)}

\* an empty text is no match: the next selector is tried
_execute_read_text(step) ==
    {Ret(None, IF step.save_as = None THEN <<>>
               ELSE <<<<step.save_as, v>>>>, <<>>) : v \in PageTexts}
        \cup {UnlessOptional(step, step.on_error)}

\* company_name = variables.get('company_name', selected_client), else taken
\* from the suggested filename; stored when not empty
DownloadCompany ==
    IF state.variables["company_name"] # Unset
    THEN {state.variables["company_name"]}
    ELSE IF state.variables["selected_client"] # Unset
    THEN {state.variables["selected_client"]}
    ELSE {Str("Acme Ltd"), Str("")}

\* the try body of both download handlers once the download has started
DownloadBody(step) ==
    UNION {{
        \* saved: company_name, downloaded_file and a download event
        Ret(None,
            (IF c # Str("") THEN <<<<"company_name", c>>>> ELSE <<>>)
                \o <<<<"downloaded_file", Str("file")>>>>,
            <<[type |-> "download"]>>),
        \* the final copy is empty: company_name is already stored
        IF ~step.optional
        THEN [Failed EXCEPT !.stores =
                 IF c # Str("") THEN <<<<"company_name", c>>>> ELSE <<>>]
        ELSE Absorbed(step.on_error,
                      IF c # Str("") THEN <<<<"company_name", c>>>> ELSE <<>>)
      } : c \in DownloadCompany}
    \* never started, failed, or the temp file stayed empty
    \cup {UnlessOptional(step, step.on_error)}

_execute_wait_for_download(step) == DownloadBody(step)

\* no visible trigger element raises whatever optional says
_execute_click_and_download(step) == {Failed} \cup DownloadBody(step)

_execute_script(step) ==
    {Ret(None, IF step.save_as = None THEN <<>>
               ELSE <<<<step.save_as, Str("result")>>>>, <<>>),
     Ok, UnlessOptional(step, step.on_error)}

\* validation_result is stored and a validation event logged before the
\* verdict; an exception of the inspection itself returns on_error unless
\* fail_on_error
_execute_validate_filters(step) ==
    LET checked == <<<<"validation_result", Str("checked")>>>>
        logged == <<[type |-> "validation"]>>
    IN  {Ret(None, checked, logged)}
        \cup (IF step.fail_on_error
              THEN {[Failed EXCEPT !.stores = checked, !.logged = logged], Failed}
              ELSE {Absorbed(step.on_error, <<>>)})

\* handlers.get(action) applied to the step, for the handlers above
Handler(step) ==
    CASE step.action = "goto" -> _execute_goto(step)
      [] step.action = "fill" -> _execute_fill(step)
      [] step.action = "press_key" -> _execute_press_key(step)
      [] step.action = "click" -> _execute_click(step)
      [] step.action = "ensure_checked" -> _execute_ensure_checked(step)
      [] step.action = "batch_ensure_checked" -> _execute_batch_ensure_checked(step)
      [] step.action = "deselect_all_columns" -> _execute_deselect_all_columns(step)
      [] step.action = "select_columns" -> _execute_select_columns(step)
      [] step.action = "check_url" -> _execute_check_url(step)
      [] step.action = "wait_for_url" -> _execute_wait_for_url(step)
      [] step.action = "wait_for_selector" -> _execute_wait_for_selector(step)
      [] step.action = "wait_for_download" -> _execute_wait_for_download(step)
      [] step.action = "capture_state" -> _execute_capture_state(step)
      [] step.action = "scrape" -> _execute_scrape(step)
      [] step.action = "manual_intervention" -> _execute_manual_intervention(step)
      [] step.action = "read_input" -> _execute_read_input(step)
      [] step.action = "read_text" -> _execute_read_text(step)
      [] step.action = "click_and_download" -> _execute_click_and_download(step)
      [] step.action = "execute_script" -> _execute_script(step)
      [] step.action = "validate_filters" -> _execute_validate_filters(step)

-----------------------------------------------------------------------------
(* _execute_step.                                                          *)

\* handlers.get(action) found nothing
NoHandler ==
    [kind |-> "unknown", target |-> None, stores |-> <<>>, logged |-> <<>>,
     failed |-> FALSE]

\* what `await handler(step)` can do for a step that is no loop
Outcomes(step) ==
    IF step.action \notin Handlers THEN {NoHandler} ELSE Handler(step)

\* report.log_step(step_id, action, description, status)
StepEvent(step, status) ==
    [type |-> "step", step_id |-> step.id, action |-> step.action, status |-> status]

\* report.log_error(step_id, error, fatal)
\* log_error called without its fatal argument
ErrorEventUnmarked(step, fatal) == [type |-> "error", step_id |-> step.id, fatal |-> FALSE]

ErrorEvent(step, fatal) == [type |-> "error", step_id |-> step.id, fatal |-> fatal]

RECURSIVE KeepAll(_, _, _)
KeepAll(s, xs, n) ==
    IF xs = <<>> THEN s ELSE KeepAll(Keep(s, xs[1], n), Tail(xs), n)

\* what the handler did to the store and the report before it ended with o
HandlerEffects(st, ev, o) ==
    LET ve == StoreAll(<<st.variables, ev>>, o.stores)
    IN  <<[st EXCEPT !.variables = ve[1]], KeepAll(ve[2], o.logged, MaxEvents)>>

\* a non-fatal Exception: return step.get('on_error'), under another key
OnErrorOfTimeout(step) == step.on_timeout

\* the value _execute_step returns from `except Exception`
ExceptTarget(step) == step.on_error

\* an unknown action treated as a failed step: an errors entry, on_error
UnknownRecorded(step, st, ev) ==
    [state |-> [st EXCEPT !.errors =
                   Keep(@, [step |-> step.id, fatal |-> FALSE], MaxLog)],
     events |-> ev, raised |-> FALSE, target |-> step.on_error]

\* an unknown action counted among the completed steps
UnknownCompleted(step, st, ev) ==
    [state |-> [st EXCEPT !.completed_steps = Keep(@, step.id, MaxLog)],
     events |-> ev, raised |-> FALSE, target |-> None]

\* `if not handler`: the error is logged and None returned, before the try
Unknown(step, st, ev) ==
    [state |-> st, events |-> ev, raised |-> FALSE, target |-> None]

\* the try/except of _execute_step around `await handler(step)`, the handler
\* having ended with o in store/report st, ev: the store and report after
\* it, whether StepFailedError leaves _execute_step, and the value returned
Settle(step, o, st, ev) ==
    CASE o.kind = "unknown" -> Unknown(step, st, ev)
      [] o.kind = "return" ->
            [state |-> [st EXCEPT !.completed_steps = Keep(@, step.id, MaxLog)],
             events |-> Keep(ev, StepEvent(step, "success"), MaxEvents),
             raised |-> FALSE, target |-> o.target]
      [] o.kind = "StepFailedError" ->
            [state |-> st,
             events |-> Keep(Keep(ev, StepEvent(step, "error"), MaxEvents),
                             ErrorEvent(step, TRUE), MaxEvents),
             raised |-> TRUE, target |-> None]
      [] o.kind = "Exception" ->
            [state |-> [st EXCEPT !.errors =
                           Keep(@, [step |-> step.id, fatal |-> FALSE], MaxLog)],
             events |-> Keep(Keep(ev, StepEvent(step, "error"), MaxEvents),
                             ErrorEvent(step, FALSE), MaxEvents),
             raised |-> FALSE, target |-> ExceptTarget(step)]

\* the history record of a dispatch that has ended: the step, whether it is a
\* step of the workflow ("top") or a sub-step of a loop ("sub"), its 0-based
\* place in its list, how its handler ended; tick flips at every dispatch;
\* issue is what the probe of the VAT page found when it ended the handler
Dispatched(step, level, o, index) ==
    [id |-> step.id, level |-> level, kind |-> o.kind, target |-> o.target,
     failed |-> o.failed, index |-> index, tick |-> 1 - last.tick,
     issue |-> None]

\* _execute_step for a step whose handler runs to its end in one go
_execute_step(step, o) ==
    LET entered == [state EXCEPT !.current_step = step.id]
        he == HandlerEffects(entered, events, o)
    IN  Settle(step, o, he[1], he[2])

-----------------------------------------------------------------------------
(* run.                                                                    *)

\* the last index of a step with this id instead of the first
LastStepIndex(step_id) ==
    IF \E i \in 1..Len(steps) : steps[i].id = step_id
    THEN (CHOOSE i \in 1..Len(steps) :
             /\ steps[i].id = step_id
             /\ \A j \in (i + 1)..Len(steps) : steps[j].id # step_id) - 1
    ELSE -1

\* the first 0-based index of a step with this id, else -1
_get_step_index(step_id) ==
    IF \E i \in 1..Len(steps) : steps[i].id = step_id
    THEN (CHOOSE i \in 1..Len(steps) :
             /\ steps[i].id = step_id
             /\ \A j \in 1..(i - 1) : steps[j].id # step_id) - 1
    ELSE -1

\* a target that names no step leaves the index where it is
NextIndexStaying(target) ==
    IF target = None THEN current_index + 1
    ELSE IF _get_step_index(target) >= 0 THEN _get_step_index(target)
    ELSE current_index

\* falling through passes over the step that follows
NextIndexSkipping(target) ==
    IF target # None /\ _get_step_index(target) >= 0
    THEN _get_step_index(target)
    ELSE current_index + 2

\* the index the while loop of run continues at after a step returned target
NextIndex(target) ==
    IF target # None /\ _get_step_index(target) >= 0
    THEN _get_step_index(target)
    ELSE current_index + 1

\* run without its except StepFailedError clause taking effect
AfterStepSwallowing(r) ==
    /\ state' = r.state
    /\ events' = r.events
    /\ current_index' = NextIndex(r.target)
    /\ pc' = "loop"
    /\ UNCHANGED final_status

\* the rest of a loop iteration of run once _execute_step has ended with r,
\* including the except StepFailedError clause and end_workflow
AfterStep(r) ==
    IF r.raised
    THEN /\ final_status' = "failed"
         /\ state' = [r.state EXCEPT !.errors =
                         Keep(@, [step |-> r.state.current_step, fatal |-> TRUE], MaxLog)]
         /\ events' = Keep(r.events, [type |-> "workflow_end", status |-> "failed"], MaxEvents)
         /\ pc' = "done"
         /\ UNCHANGED current_index
    ELSE /\ state' = r.state
         /\ events' = r.events
         /\ current_index' = NextIndex(r.target)
         /\ pc' = "loop"
         /\ UNCHANGED final_status

\* run up to the while loop: start_workflow, current_index = 0,
\* final_status = "completed"
RunStart ==
    /\ pc = "start"
    /\ pc' = "loop"
    /\ current_index' = 0
    /\ final_status' = "completed"
    /\ events' = Keep(events, [type |-> "workflow_start"], MaxEvents)
    /\ UNCHANGED <<app, call, steps, env_vars, state, loop, dispatched, last>>

\* one iteration of the while loop on a step that is no loop
ExecuteStep ==
    /\ pc = "loop"
    /\ current_index < Len(steps)
    /\ LET step == steps[current_index + 1]
       IN  /\ step.action \notin LoopHandlers
           /\ \E o \in Outcomes(step) :
                /\ AfterStep(_execute_step(step, o))
                /\ dispatched' = Keep(dispatched, [id |-> step.id, level |-> "top"], MaxLog)
                /\ last' = Dispatched(step, "top", o, current_index)
    /\ UNCHANGED <<app, call, steps, env_vars, loop>>

\* the while loop ends: end_workflow(final_status)
RunComplete ==
    /\ pc = "loop"
    /\ current_index >= Len(steps)
    /\ pc' = "done"
    /\ events' = Keep(events, [type |-> "workflow_end", status |-> final_status], MaxEvents)
    /\ UNCHANGED <<app, call, steps, env_vars, current_index, final_status, state, loop,
                   dispatched, last>>

-----------------------------------------------------------------------------
(* The loop handlers: what both share.                                     *)

\* no loop handler is in flight
NoLoop == [kind |-> None]

\* the list left in its discovery order
NotReversed(s) == s

\* s[::-1]
Reverse(s) == [i \in 1..Len(s) |-> s[Len(s) + 1 - i]]

\* the start dates a listed item may show: three dates around 01 Apr 2024
\* and one of the same shape that is no date (31 Feb 2024)
ItemDates == {Text("d b Y", 31, 3, 2024), Text("d b Y", 1, 4, 2024),
              Text("d b Y", 15, 4, 2024), Text("d b Y", 31, 2, 2024)}

\* an item of the page: id is its place in the page's order, which is also
\* what makes its buttonId, unique on the page
Item(id, start) ==
    [id |-> id, startDate |-> start, endDate |-> [start EXCEPT !.y = @ + 1]]

\* the lists a page may show: up to MaxItems items of different dates, and
\* the three periods around 01 Apr 2024 listed newest first
ItemLists ==
    UNION {{[i \in 1..n |-> Item(i, f[i])] :
               f \in {g \in [1..n -> ItemDates] :
                         \A i, j \in 1..n : i # j => g[i] # g[j]}} :
           n \in 0..MaxItems}
    \cup {<<Item(1, Text("d b Y", 15, 4, 2024)), Item(2, Text("d b Y", 1, 4, 2024)),
            Item(3, Text("d b Y", 31, 3, 2024))>>}

\* the filter date of both loops: filter_date_from resolved, then parsed
FilterDate(step) ==
    IF step.filter_date_from = None THEN NoDate
    ELSE _parse_date(ResolveName(step.filter_date_from))

\* the handler in flight ends with o (returns, or raises out of itself):
\* the rest of _execute_step and of the iteration of run
LoopExit(step, o, st, ev) ==
    /\ AfterStep(Settle(step, o, st, ev))
    /\ loop' = NoLoop
    /\ last' = Dispatched(step, "top", o, current_index)

\* one sub-step handed to _execute_step inside the try of the sub_steps loop
\* of either handler; StepFailedError is caught there, the value returned is
\* dropped
SubStep(sub_step, o) ==
    LET r == _execute_step(sub_step, o)
    IN  /\ state' = r.state
        /\ events' = r.events
        /\ dispatched' = Keep(dispatched, [id |-> sub_step.id, level |-> "sub"], MaxLog)
        /\ last' = Dispatched(sub_step, "sub", o, loop.sub - 1)
        /\ loop' = IF r.raised
                   THEN [loop EXCEPT !.at = "after_sub_steps", !.sub_step_failed = TRUE]
                   ELSE [loop EXCEPT !.sub = @ + 1,
                                     !.at = IF loop.sub >= Len(loop.step.sub_steps)
                                            THEN "after_sub_steps" ELSE @]
        /\ UNCHANGED <<app, call, steps, env_vars, pc, current_index, final_status>>

-----------------------------------------------------------------------------
(* _execute_loop_vat_returns.                                              *)

\* the page states that block the VAT list
VatPageIssues == {"hmrc_access_error", "no_vat_registration", "no_vat_returns"}

\* report.log_skip(reason, context)
SkipEvent(reason) == [type |-> "skip", reason |-> reason]

\* an item whose own date does not parse is dropped when a filter date is set
PassesParsedOnly(filter_date, row_date) ==
    \/ filter_date = NoDate
    \/ row_date # NoDate /\ ~DateLess(row_date, filter_date)

\* an item stays in to_process unless both dates parse and its own is earlier
Passes(filter_date, row_date) ==
    ~(filter_date # NoDate /\ row_date # NoDate /\ DateLess(row_date, filter_date))

\* the blocked page is logged as skipped but no count is stored
BlockedWithoutCount(st, ev, issue) ==
    <<st, Keep(ev, SkipEvent(issue), MaxEvents)>>

\* `if vat_page_issues:` up to its return: the store and the report after it
Blocked(st, ev, issue) ==
    LET ve == _store_variable(<<st.variables, ev>>, "loop_processed_count",
                              [t |-> "int", n |-> 0])
    IN  <<[st EXCEPT !.variables = ve[1]], Keep(ve[2], SkipEvent(issue), MaxEvents)>>

\* the handler up to the for loop over to_process
LoopVatEnter ==
    /\ pc = "loop"
    /\ current_index < Len(steps)
    /\ LET step == steps[current_index + 1]
           entered == [state EXCEPT !.current_step = step.id]
       IN  /\ step.action = "loop_vat_returns"
           /\ dispatched' = Keep(dispatched, [id |-> step.id, level |-> "top"], MaxLog)
           /\ \/ \* page.evaluate raises (the issues probe or the discovery)
                 LoopExit(step, Raised, entered, events)
              \/ \* the page is blocked: count 0, one skip event, return None
                 \E issue \in VatPageIssues :
                    LET b == Blocked(entered, events, issue)
                    IN  /\ AfterStep(Settle(step, Ok, b[1], b[2]))
                        /\ loop' = NoLoop
                        /\ last' = [Dispatched(step, "top", Ok, current_index)
                                       EXCEPT !.issue = issue]
              \/ \* discovery, reversal, partition
                 \E found \in ItemLists :
                    LET filter_date == FilterDate(step)
                        vat_returns == IF step.reverse_order THEN Reverse(found) ELSE found
                        keep(vr) == Passes(filter_date, _parse_date(vr.startDate))
                        drop(vr) == ~keep(vr)
                    IN  /\ loop' = [kind |-> "loop_vat_returns", step |-> step,
                                    filter_date |-> filter_date, found |-> found,
                                    to_process |-> SelectSeq(vat_returns, keep),
                                    skipped |-> SelectSeq(vat_returns, drop),
                                    processed_button_ids |-> {}, processed |-> 0,
                                    pos |-> 0, at |-> "items", sub |-> 1,
                                    sub_step_failed |-> FALSE, trail |-> <<>>,
                                    navigated_back |-> FALSE]
                        /\ pc' = "in_loop"
                        /\ state' = entered
                        /\ UNCHANGED <<events, current_index, final_status, last>>
    /\ UNCHANGED <<app, call, steps, env_vars>>

\* the four _store_variable calls at the head of an item
StoreItem(ve, vat_return, i, n) ==
    _store_variable(
        _store_variable(
            _store_variable(
                _store_variable(ve, "vat_return_period",
                                [t |-> "range", start |-> vat_return.startDate,
                                 end |-> vat_return.endDate]),
                "vat_return_start_date", vat_return.startDate),
            "vat_return_end_date", vat_return.endDate),
        "vat_return_progress", [t |-> "progress", i |-> i, n |-> n])

\* the item is over: the for loop goes to the next one
NextItem(fate) ==
    [loop EXCEPT !.pos = @ + 1, !.at = "items", !.sub = 1, !.sub_step_failed = FALSE,
                 !.navigated_back = FALSE,
                 !.trail = Append(@, [id |-> loop.to_process[loop.pos + 1].id,
                                      fate |-> fate])]

\* one iteration of the for loop up to the sub_steps loop
LoopVatItem ==
    /\ pc = "in_loop"
    /\ loop.kind = "loop_vat_returns"
    /\ loop.at = "items"
    /\ loop.pos < Len(loop.to_process)
    /\ LET vat_return == loop.to_process[loop.pos + 1]
           ve == StoreItem(<<state.variables, events>>, vat_return,
                           loop.pos + 1, Len(loop.to_process))
           stored == [state EXCEPT !.variables = ve[1]]
       IN  IF vat_return.id \in loop.processed_button_ids
           THEN /\ loop' = NextItem("duplicate")
                /\ UNCHANGED <<state, events, pc, current_index, final_status,
                               dispatched, last>>
           ELSE \/ \* page.evaluate raises (the click, or the prompt probe)
                   /\ LoopExit(loop.step, Raised, stored, ve[2])
                   /\ UNCHANGED dispatched
                \/ \* no Review button: continue
                   /\ loop' = NextItem("no_button")
                   /\ state' = stored
                   /\ events' = ve[2]
                   /\ UNCHANGED <<pc, current_index, final_status, dispatched, last>>
                \/ \* clicked, the preparation prompt shows: skip event, back
                   \* to the list, continue
                   /\ loop' = [NextItem("prompt") EXCEPT
                                  !.processed_button_ids = @ \cup {vat_return.id},
                                  !.navigated_back = TRUE]
                   /\ state' = stored
                   /\ events' = Keep(ve[2], SkipEvent("VAT preparation not configured"),
                                     MaxEvents)
                   /\ UNCHANGED <<pc, current_index, final_status, dispatched, last>>
                \/ \* the same, and page.goto of the way back raises
                   /\ LoopExit(loop.step, Raised, stored,
                               Keep(ve[2], SkipEvent("VAT preparation not configured"),
                                    MaxEvents))
                   /\ UNCHANGED dispatched
                \/ \* clicked, no prompt: on to the sub_steps
                   /\ loop' = [loop EXCEPT !.processed_button_ids = @ \cup {vat_return.id},
                                           !.at = IF loop.step.sub_steps = <<>>
                                                  THEN "after_sub_steps" ELSE "sub_steps",
                                           !.sub = 1, !.sub_step_failed = FALSE]
                   /\ state' = stored
                   /\ events' = ve[2]
                   /\ UNCHANGED <<pc, current_index, final_status, dispatched, last>>
    /\ UNCHANGED <<app, call, steps, env_vars>>

\* one pass of `for sub_step in sub_steps`
LoopVatSubStep ==
    /\ pc = "in_loop"
    /\ loop.kind = "loop_vat_returns"
    /\ loop.at = "sub_steps"
    /\ \E o \in Outcomes(loop.step.sub_steps[loop.sub]) :
          SubStep(loop.step.sub_steps[loop.sub], o)

\* after the sub_steps loop: sub_step_failed navigates back and continues,
\* otherwise processed += 1
LoopVatItemEnd ==
    /\ pc = "in_loop"
    /\ loop.kind = "loop_vat_returns"
    /\ loop.at = "after_sub_steps"
    /\ IF loop.sub_step_failed
       THEN \/ \* await self._navigate_back_to_vat_list(); continue
               /\ loop' = [NextItem("failed") EXCEPT !.navigated_back = TRUE]
               /\ UNCHANGED <<state, events, pc, current_index, final_status, last>>
            \/ \* page.goto of _navigate_back_to_vat_list raises
               LoopExit(loop.step, Raised, state, events)
       ELSE /\ loop' = [NextItem("ok") EXCEPT !.processed = @ + 1]
            /\ UNCHANGED <<state, events, pc, current_index, final_status, last>>
    /\ UNCHANGED <<app, call, steps, env_vars, dispatched>>

\* after the for loop: store loop_processed_count, return None
LoopVatReturn ==
    /\ pc = "in_loop"
    /\ loop.kind = "loop_vat_returns"
    /\ loop.at = "items"
    /\ loop.pos >= Len(loop.to_process)
    /\ LET ve == _store_variable(<<state.variables, events>>, "loop_processed_count",
                                 [t |-> "int", n |-> loop.processed])
       IN  LoopExit(loop.step, Ok, [state EXCEPT !.variables = ve[1]], ve[2])
    /\ UNCHANGED <<app, call, steps, env_vars, dispatched>>

-----------------------------------------------------------------------------
(* _execute_loop_elements.                                                 *)

\* the handler up to the for loop over indices
LoopElementsEnter ==
    /\ pc = "loop"
    /\ current_index < Len(steps)
    /\ LET step == steps[current_index + 1]
           entered == [state EXCEPT !.current_step = step.id]
       IN  /\ step.action = "loop_elements"
           /\ dispatched' = Keep(dispatched, [id |-> step.id, level |-> "top"], MaxLog)
           /\ \/ \* rows.count() raises
                 LoopExit(step, Raised, entered, events)
              \/ \E rows \in ItemLists :
                    LET indices == [i \in 1..Len(rows) |-> i - 1]
                    IN  /\ loop' = [kind |-> "loop_elements", step |-> step,
                                    filter_date |-> FilterDate(step), rows |-> rows,
                                    indices |-> IF step.reverse_order
                                                THEN Reverse(indices) ELSE indices,
                                    processed |-> 0, skipped |-> 0,
                                    pos |-> 0, at |-> "items", sub |-> 1,
                                    sub_step_failed |-> FALSE, row_date |-> NoDate,
                                    trail |-> <<>>, navigated_back |-> FALSE]
                        /\ pc' = "in_loop"
                        /\ state' = entered
                        /\ UNCHANGED <<events, current_index, final_status, last>>
    /\ UNCHANGED <<app, call, steps, env_vars>>

\* the item is over: the for loop goes to the next index
NextRow(fate, row_date) ==
    [loop EXCEPT !.pos = @ + 1, !.at = "items", !.sub = 1, !.sub_step_failed = FALSE,
                 !.navigated_back = FALSE,
                 !.trail = Append(@, [id |-> loop.rows[loop.indices[loop.pos + 1] + 1].id,
                                      fate |-> fate, row_date |-> row_date])]

\* one iteration of the for loop up to the sub_steps loop
LoopElementsItem ==
    /\ pc = "in_loop"
    /\ loop.kind = "loop_elements"
    /\ loop.at = "items"
    /\ loop.pos < Len(loop.indices)
    /\ LET row == loop.rows[loop.indices[loop.pos + 1] + 1]
           filtering == loop.filter_date # NoDate /\ loop.step.date_field_selector
       IN  \* the date field yields its text, or nothing (no text, or the
           \* read raises inside the try)
           \E read \in (IF filtering THEN {"text", "nothing"} ELSE {"unread"}) :
           \* the action button is clicked, is not visible, or raises
           \E button \in (IF loop.step.action_selector
                          THEN {"clicked", "hidden", "raises"} ELSE {"none"}) :
              LET row_date == IF read = "text"
                              THEN _extract_date_from_range(row.startDate)
                              ELSE NoDate
              IN  IF row_date # NoDate /\ DateLess(row_date, loop.filter_date)
                  THEN loop' = [NextRow("skipped", row_date) EXCEPT !.skipped = @ + 1]
                  ELSE IF button = "raises"
                  THEN loop' = NextRow("no_button", row_date)
                  ELSE loop' = [loop EXCEPT
                                   !.at = IF loop.step.sub_steps = <<>>
                                          THEN "after_sub_steps" ELSE "sub_steps",
                                   !.sub = 1, !.sub_step_failed = FALSE,
                                   !.row_date = row_date]
    /\ UNCHANGED <<app, call, steps, env_vars, pc, current_index, final_status, state, events,
                   dispatched, last>>

\* one pass of `for sub_step in sub_steps`
LoopElementsSubStep ==
    /\ pc = "in_loop"
    /\ loop.kind = "loop_elements"
    /\ loop.at = "sub_steps"
    /\ \E o \in Outcomes(loop.step.sub_steps[loop.sub]) :
          SubStep(loop.step.sub_steps[loop.sub], o)

\* after the sub_steps loop, however it ended: processed += 1
LoopElementsItemEnd ==
    /\ pc = "in_loop"
    /\ loop.kind = "loop_elements"
    /\ loop.at = "after_sub_steps"
    /\ loop' = [NextRow(IF loop.sub_step_failed THEN "failed" ELSE "ok", loop.row_date)
                   EXCEPT !.processed = @ + 1]
    /\ UNCHANGED <<app, call, steps, env_vars, pc, current_index, final_status, state, events,
                   dispatched, last>>

\* after the for loop: store loop_processed_count, return None
LoopElementsReturn ==
    /\ pc = "in_loop"
    /\ loop.kind = "loop_elements"
    /\ loop.at = "items"
    /\ loop.pos >= Len(loop.indices)
    /\ LET ve == _store_variable(<<state.variables, events>>, "loop_processed_count",
                                 [t |-> "int", n |-> loop.processed])
       IN  LoopExit(loop.step, Ok, [state EXCEPT !.variables = ve[1]], ve[2])
    /\ UNCHANGED <<app, call, steps, env_vars, dispatched>>

-----------------------------------------------------------------------------
(* app.py: the chain of workflows, started and stopped over the websocket.  *)
(* The tasks share one event loop: a task runs from one await to the next   *)
(* without interleaving, so each action below is the code between two       *)
(* awaits.  Task.cancel() raises CancelledError in the task at the await it *)
(* is suspended on.                                                        *)

\* the chain tasks the model lets start_workflow create
MaxChains == 2

\* the names of a start request: a login workflow and a report workflow
WorkflowNames == {<<>>, <<"login_and_redirect">>, <<"trial_balance_report">>,
                  <<"login_and_redirect", "trial_balance_report">>}

\* the clients of a start request
ClientLists == {<<>>, <<"Client A">>, <<"Client A", "Client B">>}

\* no task: the slot of a task start_workflow has not created
NoTask ==
    [pc |-> "none", must_cancel |-> FALSE, workflow_paths |-> <<>>,
     clients_to_process |-> <<>>, client_idx |-> 0, i |-> 0,
     playwright |-> "none", context |-> "none", closes |-> 0, idles |-> 0,
     ends |-> <<>>, fatal |-> FALSE, pending |-> None, result |-> None,
     stopped |-> FALSE, workflow_name |-> None, has_fatal_error |-> FALSE]

\* the module globals at import: workflow_task = None, workflow_running = False
AppIdle ==
    [workflow_running |-> FALSE, workflow_task |-> 0,
     tasks |-> [t \in 1..MaxChains |-> NoTask]]

Tasks == 1..MaxChains

\* the task is created and has not ended
Active(t) == app.tasks[t].pc \notin {"none", "ended"}

\* the task ends: the coroutine returned, or an exception left it
TaskEnded(task, result) == [task EXCEPT !.pc = "ended", !.result = result]

\* master_report.end_workflow(status)
EndReport(task, status) == [task EXCEPT !.ends = Append(@, status)]

\* start_workflow: refuse when workflow_running, else create the task
start_workflow ==
    /\ ~app.workflow_running
    /\ \E t \in Tasks :
          /\ app.tasks[t].pc = "none"
          /\ \A u \in 1..(t - 1) : app.tasks[u].pc # "none"
          /\ \E workflow_names \in WorkflowNames, clients \in ClientLists :
                app' = [app EXCEPT
                           !.workflow_task = t,
                           !.tasks[t] = [NoTask EXCEPT
                               !.pc = "created",
                               !.workflow_paths = workflow_names,
                               !.clients_to_process =
                                   IF clients = <<>> THEN <<None>> ELSE clients]]
    /\ UNCHANGED engine_vars

\* stop_workflow: clear the flag and cancel the task workflow_task names
stop_workflow ==
    /\ app.workflow_task # 0
    /\ app.workflow_running
    /\ LET t == app.workflow_task
       IN  app' = [app EXCEPT
                      !.workflow_running = FALSE,
                      !.tasks[t] = IF app.tasks[t].pc = "ended" THEN @
                                   ELSE [@ EXCEPT !.must_cancel = TRUE,
                                                  !.stopped = TRUE]]
    /\ UNCHANGED engine_vars

\* task t is suspended at the await `at` and nothing cancels it
Runs(t, at) == app.tasks[t].pc = at /\ ~app.tasks[t].must_cancel

SetTask(t, task) == app' = [app EXCEPT !.tasks[t] = task]

\* the finally clause up to its first await, entered with the exception that
\* is on its way out, if any: what is open decides where it waits first;
\* with nothing left to close it clears workflow_running and sends idle
EnterFinally(t, task, pending) ==
    LET at == IF task.context = "open" THEN "finally_close"
              ELSE IF task.playwright = "open" THEN "finally_stop"
              ELSE "finally_idle"
    IN  app' = [app EXCEPT
                   !.workflow_running = IF at = "finally_idle" THEN FALSE ELSE @,
                   !.tasks[t] = [task EXCEPT !.pc = at, !.pending = pending]]

\* the position of the two for loops after the link at (client_idx, i)
NextLink(task) ==
    IF task.i < Len(task.workflow_paths)
    THEN [task EXCEPT !.i = @ + 1]
    ELSE [task EXCEPT !.client_idx = @ + 1, !.i = 1]

\* the inner loop goes on after a failed login link
NextClientUnbroken(task) == NextLink(task)

\* `break` of the inner loop: on to the next client
NextClient(task) == [task EXCEPT !.client_idx = @ + 1, !.i = 1]

\* run_workflow_chain up to its first await: workflow_running = True
ChainBegin ==
    /\ \E t \in Tasks :
          /\ Runs(t, "created")
          /\ \A u \in 1..(t - 1) : app.tasks[u].pc # "created"
          /\ app' = [app EXCEPT !.workflow_running = TRUE,
                                !.tasks[t].pc = "status_running"]
    /\ UNCHANGED engine_vars

\* send_status("running") and the logs before the try; workflow_paths built
ChainPaths ==
    /\ \E t \in Tasks :
          /\ Runs(t, "status_running")
          /\ SetTask(t, [app.tasks[t] EXCEPT
                            !.pc = IF app.tasks[t].workflow_paths = <<>>
                                   THEN "idle_no_paths" ELSE "starting"])
    /\ UNCHANGED engine_vars

\* no valid workflow: send_status("idle"), workflow_running = False, return
ChainNoPaths ==
    /\ \E t \in Tasks :
          /\ Runs(t, "idle_no_paths")
          /\ app' = [app EXCEPT
                        !.workflow_running = FALSE,
                        !.tasks[t] = TaskEnded([@ EXCEPT !.idles = @ + 1], "returned")]
    /\ UNCHANGED engine_vars

\* async_playwright().start(), in the try
ChainStart ==
    /\ \E t \in Tasks :
          /\ Runs(t, "starting")
          /\ \/ SetTask(t, [app.tasks[t] EXCEPT !.playwright = "open",
                                                !.pc = "launching"])
             \/ SetTask(t, [app.tasks[t] EXCEPT !.pc = "fail_log"])
    /\ UNCHANGED engine_vars

\* launch_persistent_context and the screencast set-up
ChainLaunch ==
    /\ \E t \in Tasks :
          /\ Runs(t, "launching")
          /\ \/ SetTask(t, [app.tasks[t] EXCEPT !.context = "open", !.pc = "links",
                                                !.client_idx = 1, !.i = 1])
             \/ SetTask(t, [app.tasks[t] EXCEPT !.pc = "fail_log"])
    /\ UNCHANGED engine_vars

\* the flag read as set whatever it holds
StopNeverSeen == FALSE

\* `if not workflow_running:` at the head of either for loop
StopSeen == ~app.workflow_running

\* the heads of the two for loops, and what follows them when they are over
ChainLink ==
    /\ \E t \in Tasks :
          LET task == app.tasks[t]
          IN  /\ Runs(t, "links")
              /\ IF task.client_idx > Len(task.clients_to_process) \/ StopSeen
                 THEN \* the loops are over, or `if not workflow_running: break`
                      IF app.workflow_running
                      THEN SetTask(t, [task EXCEPT !.pc = "sending_completed"])
                      ELSE EnterFinally(t, task, None)
                 ELSE LET named == [task EXCEPT !.workflow_name =
                                                      task.workflow_paths[task.i]]
                      IN  \/ \* already on the reporting page: continue
                             /\ task.workflow_paths[task.i] = "login_and_redirect"
                             /\ SetTask(t, NextLink(named))
                          \/ SetTask(t, [named EXCEPT !.pc = "in_link"])
    /\ UNCHANGED engine_vars

\* engine.run(...) has sent its banner and dispatches a step: the task is
\* suspended in `next_step = await handler(step)`, on a call of the driver
ChainStep ==
    /\ \E t \in Tasks :
          /\ Runs(t, "in_link")
          /\ SetTask(t, [app.tasks[t] EXCEPT !.pc = "in_step"])
    /\ UNCHANGED engine_vars

\* the handler of the link's last step returned or raised, its outcome is
\* recorded and engine.run(...) is over: no fatal error, a fatal error, or
\* an exception out of the engine
ChainLinkEnd ==
    /\ \E t \in Tasks :
          LET task == app.tasks[t]
          IN  /\ Runs(t, "in_step")
              /\ \/ SetTask(t, [NextLink(task) EXCEPT !.pc = "links",
                                                        !.has_fatal_error = FALSE])
                 \/ SetTask(t, [(IF task.workflow_name = "login_and_redirect"
                                 THEN NextClient(task) ELSE NextLink(task))
                                   EXCEPT !.pc = "links", !.fatal = TRUE,
                                          !.has_fatal_error = TRUE])
                 \/ SetTask(t, [task EXCEPT !.pc = "fail_log"])
    /\ UNCHANGED engine_vars

\* send_status("completed") went out: end_workflow("completed"), the reports
ChainCompleted ==
    /\ \E t \in Tasks :
          /\ Runs(t, "sending_completed")
          /\ SetTask(t, [EndReport(app.tasks[t], "completed") EXCEPT
                            !.pc = "completed_report"])
    /\ UNCHANGED engine_vars

\* the try block ends normally
ChainTryEnd ==
    /\ \E t \in Tasks :
          /\ Runs(t, "completed_report")
          /\ EnterFinally(t, app.tasks[t], None)
    /\ UNCHANGED engine_vars

\* except asyncio.CancelledError / except Exception: the log, then
\* end_workflow("cancelled") / end_workflow("failed") and the reports
ChainExcept ==
    /\ \E t \in Tasks :
          \/ /\ Runs(t, "cancel_log")
             /\ SetTask(t, [EndReport(app.tasks[t], "cancelled") EXCEPT
                               !.pc = "except_report"])
          \/ /\ Runs(t, "fail_log")
             /\ SetTask(t, [EndReport(app.tasks[t], "failed") EXCEPT
                               !.pc = "except_report"])
          \/ /\ Runs(t, "except_report")
             /\ EnterFinally(t, app.tasks[t], None)
    /\ UNCHANGED engine_vars

\* finally: context.close(), playwright.stop(), workflow_running = False,
\* send_status("idle")
ChainFinally ==
    /\ \E t \in Tasks :
          LET task == app.tasks[t]
          IN  \/ /\ Runs(t, "finally_close")
                 /\ EnterFinally(t, [task EXCEPT !.context = "closed",
                                                 !.closes = @ + 1], task.pending)
              \/ /\ Runs(t, "finally_stop")
                 /\ EnterFinally(t, [task EXCEPT !.playwright = "closed"], task.pending)
              \/ /\ Runs(t, "finally_idle")
                 /\ SetTask(t, TaskEnded([task EXCEPT !.idles = @ + 1],
                                         IF task.pending = None THEN "returned"
                                         ELSE task.pending))
    /\ UNCHANGED engine_vars

\* CancelledError is raised in the task at the await it is suspended on
ChainCancelled ==
    /\ \E t \in Tasks :
          LET task == [app.tasks[t] EXCEPT !.must_cancel = FALSE]
          IN  /\ app.tasks[t].must_cancel
              /\ Active(t)
              /\ IF task.pc \in {"starting", "launching", "links", "in_link",
                                 "in_step", "sending_completed",
                                 "completed_report"}
                 THEN \* in the try: except asyncio.CancelledError
                      SetTask(t, [task EXCEPT !.pc = "cancel_log"])
                 ELSE IF task.pc \in {"cancel_log", "fail_log", "except_report"}
                 THEN \* in an except clause: out through finally
                      EnterFinally(t, task, "cancelled")
                 ELSE \* before the try, or in finally: out of the coroutine
                      SetTask(t, TaskEnded(task, "cancelled"))
    /\ UNCHANGED engine_vars

-----------------------------------------------------------------------------
(* Calls on the engine from outside run(): _store_variable,                *)
(* _resolve_variable and _execute_step, one at a time, with the callbacks  *)
(* the caller has set.                                                     *)

\* calls made on one engine
MaxCalls == 2

NoCall == [op |-> "none", n |-> 0]

\* the values handed to _store_variable: the text of a date, a text that is
\* no date, an int
StoreValues == {Text("d b Y", 1, 3, 2024), Text("d/m/Y", 31, 12, 2024),
                Text("other", 0, 0, 0), [t |-> "int", n |-> 3]}

\* the years datetime is taken through
Years == 2023..2025

RECURSIVE DaysBeforeMonth(_, _)
DaysBeforeMonth(m, y) ==
    IF m = 1 THEN 0 ELSE DaysBeforeMonth(m - 1, y) + DaysInMonth(m - 1, y)

\* date.toordinal()
ToOrdinal(dt) ==
    LET py == dt.y - 1
    IN  py * 365 + py \div 4 - py \div 100 + py \div 400
           + DaysBeforeMonth(dt.m, dt.y) + dt.d

\* date.fromordinal(n), for the years in view
FromOrdinal(n) ==
    LET ym == CHOOSE ym \in Years \X (1..12) :
                 n - ToOrdinal([y |-> ym[1], m |-> ym[2], d |-> 0])
                    \in 1..DaysInMonth(ym[2], ym[1])
    IN  [y |-> ym[1], m |-> ym[2],
         d |-> n - ToOrdinal([y |-> ym[1], m |-> ym[2], d |-> 0])]

\* dt + timedelta(days=days)
AddTimedelta(dt, days) == FromOrdinal(ToOrdinal(dt) + days)

\* the pieces of a rendered date: a zero-padded number, a month name, a
\* character copied from the format
Num(w, n) == [t |-> "num", w |-> w, n |-> n]

Mon(m) == [t |-> "mon", m |-> m]

Lit(c) == [t |-> "lit", c |-> c]

\* format strings, directive by directive: '%d %b %Y' (the default),
\* '%Y-%m-%d', and the pattern letters 'yyyy-MM-dd'
DefaultFormat == <<"%d", " ", "%b", " ", "%Y">>

IsoFormat == <<"%Y", "-", "%m", "-", "%d">>

PatternFormat == <<"yyyy", "-", "MM", "-", "dd">>

\* group 3 of date_add_pattern did not match
NoFormat == <<>>

DateAddFormats == {NoFormat, DefaultFormat, IsoFormat, PatternFormat}

\* the signed day counts of the templates
DateAddDays == {-61, -1, 1, 30, 31}

\* dt.strftime(fmt): a directive gives its field, anything else is copied
_format_date(dt, fmt) ==
    [k \in 1..Len(fmt) |->
        CASE fmt[k] = "%d" -> Num(2, dt.d)
          [] fmt[k] = "%m" -> Num(2, dt.m)
          [] fmt[k] = "%Y" -> Num(4, dt.y)
          [] fmt[k] = "%b" -> Mon(dt.m)
          [] OTHER -> Lit(fmt[k])]

\* replace_date_add for ${DATE_ADD:var_name:days[:fmt]}
replace_date_add(var_name, days, fmt) ==
    LET date_str == state.variables[var_name]
        format == IF fmt = NoFormat THEN DefaultFormat ELSE fmt
    IN  IF date_str = Unset \/ (date_str.t = "int" /\ date_str.n = 0)
        THEN \* if not date_str
             [raised |-> FALSE, result |-> <<>>]
        ELSE IF date_str.t = "int"
        THEN \* date_str.strip(): AttributeError
             [raised |-> TRUE, result |-> <<>>]
        ELSE IF _parse_date(date_str) # NoDate
        THEN [raised |-> FALSE,
              result |-> _format_date(AddTimedelta(_parse_date(date_str), days), format)]
        ELSE [raised |-> FALSE, result |-> <<>>]

\* await self._store_variable(key, value)
StoreCall ==
    /\ call.n < MaxCalls
    /\ \E key \in StoreKeys, value \in StoreValues, callback \in Callbacks :
          LET r == StoreNotifying(<<state.variables, events>>, key, value, callback)
          IN  /\ state' = [state EXCEPT !.variables = r.ve[1]]
              /\ events' = r.ve[2]
              /\ call' = [op |-> "store", n |-> call.n + 1, key |-> key,
                          value |-> value, callback |-> callback,
                          notified |-> r.notified, raised |-> r.raised]
    /\ UNCHANGED <<app, steps, env_vars, pc, current_index, final_status, loop,
                   dispatched, last>>

\* self._resolve_variable("${name}")
ResolveCall ==
    /\ call.n < MaxCalls
    /\ \E name \in StoreKeys :
          LET r == _resolve_variable(name)
          IN  call' = [op |-> "resolve", n |-> call.n + 1, name |-> name,
                       raised |-> r.raised, result |-> r.result]
    /\ UNCHANGED <<app, steps, env_vars, pc, current_index, final_status, state,
                   events, loop, dispatched, last>>

\* self._resolve_variable("${DATE_ADD:var_name:days[:fmt]}")
DateAddCall ==
    /\ call.n < MaxCalls
    /\ \E var_name \in {"start", "status"}, days \in DateAddDays,
          fmt \in DateAddFormats :
          LET r == replace_date_add(var_name, days, fmt)
          IN  call' = [op |-> "date_add", n |-> call.n + 1, var_name |-> var_name,
                       days |-> days, fmt |-> fmt,
                       raised |-> r.raised, result |-> r.result]
    /\ UNCHANGED <<app, steps, env_vars, pc, current_index, final_status, state,
                   events, loop, dispatched, last>>

\* _execute_step with the log callback in view: an exception leaving
\* _emit_log leaves _execute_step with it, the logs of the step being
\* emitted outside its try block or inside its except clause
StepLogging(step, o, callback) ==
    IF _emit_log(callback) = "raises"
    THEN [settled |-> [state |-> [state EXCEPT !.current_step = step.id],
                       events |-> events, raised |-> FALSE, target |-> None],
          escaped |-> TRUE]
    ELSE [settled |-> _execute_step(step, o), escaped |-> FALSE]

\* await self._execute_step(step), for a step that is no loop
StepCall ==
    /\ call.n < MaxCalls
    /\ \E i \in 1..Len(steps), callback \in Callbacks :
          \E o \in Outcomes(steps[i]) :
             LET r == StepLogging(steps[i], o, callback)
             IN  /\ state' = r.settled.state
                 /\ events' = r.settled.events
                 /\ call' = [op |-> "step", n |-> call.n + 1, step |-> steps[i],
                             o |-> o, callback |-> callback,
                             escaped |-> r.escaped, raised |-> r.settled.raised,
                             target |-> r.settled.target]
    /\ UNCHANGED <<app, steps, env_vars, pc, current_index, final_status, loop,
                   dispatched, last>>

-----------------------------------------------------------------------------
(* _resolve_variable on any value.  A string is a sequence of pieces: a    *)
(* token of the template (one of the characters $ { } : - or a run of      *)
(* word characters), or what a substitution put in its place.              *)

\* most tokens of the templates that are enumerated in full
MaxTokens == 4

\* the tokens those templates are made of
Alphabet == {"$", "{", "}", "start"}

\* runs of word characters (\w+) that are one token
WordTokens == {"start", "status", "TODAY", "DATE_ADD", "30", "1", "x"}

\* the word tokens that are digits (\d+), and their values
DigitTokens == {"30", "1"}

DaysOf(c) == IF c = "30" THEN 30 ELSE 1

\* a str value of the given tokens
StrOf(tokens) == [t |-> "str", pieces |-> [i \in 1..Len(tokens) |-> Lit(tokens[i])]]

IsLit(p, c) == p.t = "lit" /\ p.c = c

\* the piece is made of word characters
IsWord(p) == p.t \in {"num", "mon"} \/ (p.t = "lit" /\ p.c \in WordTokens)

RECURSIVE WordRun(_, _)
\* how many pieces from j on are word characters
WordRun(ps, j) ==
    IF j <= Len(ps) /\ IsWord(ps[j]) THEN 1 + WordRun(ps, j + 1) ELSE 0

RECURSIVE NonBraceRun(_, _)
\* how many pieces from j on are not the closing brace: [^}]+
NonBraceRun(ps, j) ==
    IF j <= Len(ps) /\ ~IsLit(ps[j], "}") THEN 1 + NonBraceRun(ps, j + 1) ELSE 0

\* the pieces i+1 .. i+n of ps as format tokens
FormatAt(ps, i, n) == [k \in 1..n |-> IF ps[i + k].t = "lit" THEN ps[i + k].c ELSE "?"]

\* "$" "{" word at i
OpensWith(ps, i, word) ==
    /\ i + 2 <= Len(ps)
    /\ IsLit(ps[i], "$")
    /\ IsLit(ps[i + 1], "{")
    /\ IsLit(ps[i + 2], word)

\* the tail (?::([^}]+))?\} at j: 0 when it does not match, else its length
FormatTail(ps, j) ==
    IF j <= Len(ps) /\ IsLit(ps[j], "}") THEN 1
    ELSE IF /\ j <= Len(ps)
            /\ IsLit(ps[j], ":")
            /\ NonBraceRun(ps, j + 1) >= 1
            /\ j + NonBraceRun(ps, j + 1) + 1 <= Len(ps)
         THEN NonBraceRun(ps, j + 1) + 2
         ELSE 0

\* group 1 / group 3 of a tail of that length at j: the format, NoFormat
\* when the group did not take part
FormatOf(ps, j, length) == IF length = 1 THEN NoFormat ELSE FormatAt(ps, j, length - 2)

RECURSIVE SubToday(_, _, _)
\* re.sub(today_pattern, replace_today, value) from piece i on
SubToday(ps, i, now) ==
    IF i > Len(ps) THEN <<>>
    ELSE IF OpensWith(ps, i, "TODAY") /\ FormatTail(ps, i + 3) > 0
    THEN LET length == FormatTail(ps, i + 3)
             fmt == FormatOf(ps, i + 3, length)
         IN  _format_date(now, IF fmt = NoFormat THEN DefaultFormat ELSE fmt)
                \o SubToday(ps, i + 3 + length, now)
    ELSE <<ps[i]>> \o SubToday(ps, i + 1, now)

\* ${DATE_ADD:(\w+):(-?\d+) at i: the length up to the digits, 0 for no match
DateAddHead(ps, i) ==
    LET n == WordRun(ps, i + 4)
        minus == IF i + 5 + n <= Len(ps) /\ IsLit(ps[i + 5 + n], "-") THEN 1 ELSE 0
    IN  IF /\ OpensWith(ps, i, "DATE_ADD")
           /\ i + 3 <= Len(ps)
           /\ IsLit(ps[i + 3], ":")
           /\ n >= 1
           /\ i + 4 + n <= Len(ps)
           /\ IsLit(ps[i + 4 + n], ":")
           /\ i + 5 + n + minus <= Len(ps)
           /\ ps[i + 5 + n + minus].t = "lit"
           /\ ps[i + 5 + n + minus].c \in DigitTokens
        THEN 6 + n + minus
        ELSE 0

RECURSIVE SubDateAdd(_, _)
\* re.sub(date_add_pattern, replace_date_add, value) from piece i on
SubDateAdd(ps, i) ==
    IF i > Len(ps) THEN [raised |-> FALSE, out |-> <<>>]
    ELSE IF DateAddHead(ps, i) > 0 /\ FormatTail(ps, i + DateAddHead(ps, i)) > 0
    THEN LET head == DateAddHead(ps, i)
             length == FormatTail(ps, i + head)
             n == WordRun(ps, i + 4)
             days == DaysOf(ps[i + head - 1].c)
                        * (IF IsLit(ps[i + head - 2], "-") THEN -1 ELSE 1)
             r == IF n = 1 /\ ps[i + 4].t = "lit" /\ ps[i + 4].c \in Keys
                  THEN replace_date_add(ps[i + 4].c, days, FormatOf(ps, i + head, length))
                  ELSE [raised |-> FALSE, result |-> <<>>]
             rest == SubDateAdd(ps, i + head + length)
         IN  IF r.raised THEN [raised |-> TRUE, out |-> <<>>]
             ELSE [raised |-> rest.raised, out |-> r.result \o rest.out]
    ELSE LET rest == SubDateAdd(ps, i + 1)
         IN  [raised |-> rest.raised, out |-> <<ps[i]>> \o rest.out]

\* a dollar and a name without braces is taken for a placeholder too
NameAtLoose(ps, i) ==
    IF i + 1 <= Len(ps) /\ IsLit(ps[i], "$") /\ WordRun(ps, i + 1) >= 1
    THEN 1 + WordRun(ps, i + 1)
    ELSE 0

\* \$\{(\w+)\} at i: the length of the match, 0 for no match
NameAt(ps, i) ==
    IF /\ i + 3 <= Len(ps)
       /\ IsLit(ps[i], "$")
       /\ IsLit(ps[i + 1], "{")
       /\ WordRun(ps, i + 2) >= 1
       /\ i + 2 + WordRun(ps, i + 2) <= Len(ps)
       /\ IsLit(ps[i + 2 + WordRun(ps, i + 2)], "}")
    THEN WordRun(ps, i + 2) + 3
    ELSE 0

\* replace(match): the name is a key of the model or is defined nowhere
replace(ps, i) ==
    IF /\ i + 2 <= Len(ps)
       /\ ps[i + 2].t = "lit"
       /\ ps[i + 2].c \in Keys
       /\ WordRun(ps, i + 2) = 1
    THEN ResolveName(ps[i + 2].c)
    ELSE Text("empty", 0, 0, 0)

RECURSIVE SubNames(_, _)
\* re.sub(pattern, replace, value) from piece i on
SubNames(ps, i) ==
    IF i > Len(ps) THEN [raised |-> FALSE, out |-> <<>>]
    ELSE IF NameAt(ps, i) > 0
    THEN LET v == Substituted(replace(ps, i))
             rest == SubNames(ps, i + NameAt(ps, i))
         IN  IF v.raised THEN [raised |-> TRUE, out |-> <<>>]
             ELSE [raised |-> rest.raised,
                   out |-> (IF v.result = Text("empty", 0, 0, 0) THEN <<>>
                            ELSE <<v.result>>) \o rest.out]
    ELSE LET rest == SubNames(ps, i + 1)
         IN  [raised |-> rest.raised, out |-> <<ps[i]>> \o rest.out]

\* _resolve_variable(value), datetime.now() being `now`
ResolveValue(value, now) ==
    IF value.t # "str" THEN [raised |-> FALSE, result |-> value]
    ELSE LET dated == SubDateAdd(SubToday(value.pieces, 1, now), 1)
             named == SubNames(dated.out, 1)
         IN  IF dated.raised \/ named.raised
             THEN [raised |-> TRUE, result |-> NoResult]
             ELSE [raised |-> FALSE, result |-> [t |-> "str", pieces |-> named.out]]

\* every string of at most MaxTokens tokens of the alphabet
ShortTemplates == UNION {[1..n -> Alphabet] : n \in 0..MaxTokens}

\* templates with the placeholders of the workflows, whole and broken
LongTemplates ==
    {<<"x", "$", "{", "status", "}", "x">>,
     <<"$", "{", "TODAY", "}">>,
     <<"$", "{", "TODAY", ":", "%Y", "-", "%m", "}">>,
     <<"$", "{", "TODAY", ":", "}">>,
     <<"$", "{", "TODAY">>,
     <<"TODAY", ":", "%Y">>,
     <<"$", "{", "DATE_ADD", ":", "start", ":", "30", "}">>,
     <<"$", "{", "DATE_ADD", ":", "start", ":", "-", "1", ":", "%Y", "-", "%m", "-", "%d", "}">>,
     <<"DATE_ADD", ":", "start", ":", "30">>,
     <<"$", "DATE_ADD", ":", "start", ":", "30", "}">>,
     <<"$", "status">>,
     <<"{", "status", "}">>,
     <<"$", ":", "{", "status", "}">>}

\* the values handed to _resolve_variable: strings, an int, None
ResolveInputs ==
    {StrOf(tokens) : tokens \in ShortTemplates \cup LongTemplates}
        \cup {[t |-> "int", n |-> 3], [t |-> "none"]}

\* self._resolve_variable(value)
ResolveValueCall ==
    /\ call = NoCall
    /\ \E value \in ResolveInputs, now \in {[y |-> 2024, m |-> 12, d |-> 31]} :
          LET r == ResolveValue(value, now)
          IN  call' = [op |-> "resolve_value", n |-> 0, value |-> value,
                       raised |-> r.raised, result |-> r.result]
    /\ UNCHANGED <<app, steps, env_vars, pc, current_index, final_status, state,
                   events, loop, dispatched, last>>

-----------------------------------------------------------------------------
(* _execute_select_columns on a page of column checkboxes.                 *)

\* runs of the step on one page
MaxRuns == 2

\* the column checkboxes of the page
Columns == {"debit", "credit", "account"}

\* a selector text for the checkbox of a column: the attribute value in
\* double quotes, as js_get_checked builds it, or in single quotes
Selector(col, quote) == [col |-> col, quote |-> quote]

\* a column of the step without the key 'selector'
NoSelector == [col |-> None, quote |-> None]

\* the 'columns' lists of the step, as selectors
ColumnLists ==
    {<<>>,
     <<Selector("debit", "double")>>,
     <<Selector("debit", "single")>>,
     <<Selector("debit", "double"), Selector("credit", "double")>>,
     <<Selector("debit", "double"), Selector("debit", "double")>>,
     <<Selector("debit", "double"), NoSelector>>}

\* page.evaluate(js_get_checked): the selectors of the checked checkboxes
js_get_checked(checked) == {Selector(col, "double") : col \in checked}

\* required_selectors
RequiredSelectors(columns) ==
    {columns[k] : k \in 1..Len(columns)} \ {NoSelector}

\* cb.click(): the checkbox changes state
Toggle(checked, col) ==
    IF col \in checked THEN checked \ {col} ELSE checked \cup {col}

RECURSIVE SelectRequired(_, _, _, _)
\* the for loop over columns from the k-th on: checked_selectors is read
\* once before the loop; a click on a column of run.failing raises
SelectRequired(columns, k, checked_selectors, run) ==
    IF k > Len(columns) THEN run
    ELSE IF columns[k] = NoSelector
    THEN SelectRequired(columns, k + 1, checked_selectors,
                        [run EXCEPT !.failed_count = @ + 1])
    ELSE IF columns[k] \in checked_selectors
    THEN SelectRequired(columns, k + 1, checked_selectors, run)
    ELSE IF columns[k].col \in run.failing
    THEN SelectRequired(columns, k + 1, checked_selectors,
                        [run EXCEPT !.failed_count = @ + 1, !.click_failed = TRUE])
    ELSE SelectRequired(columns, k + 1, checked_selectors,
                        [run EXCEPT !.checked = Toggle(@, columns[k].col),
                                    !.clicks = @ + 1])

\* the handler on a page with `checked` checked, clicks on `failing` raising
SelectColumns(columns, checked, failing) ==
    LET to_deselect == {c \in js_get_checked(checked) : c \notin RequiredSelectors(columns)}
        clicked == {c.col : c \in to_deselect} \ failing
        deselected == [checked |-> checked \ clicked,
                       clicks |-> Cardinality(clicked),
                       failed_count |-> 0,
                       click_failed |-> \E c \in to_deselect : c.col \in failing,
                       failing |-> failing]
    IN  SelectRequired(columns, 1, js_get_checked(deselected.checked), deselected)

\* await self._execute_select_columns(step), on the page the call before left
SelectColumnsCall ==
    /\ call.n < MaxRuns
    /\ \E failing \in {{}, {"debit"}} :
          LET run == SelectColumns(call.columns, call.checked, failing)
          IN  call' = [call EXCEPT !.op = "select_columns", !.n = @ + 1,
                                   !.before = call.checked,
                                   !.checked = run.checked,
                                   !.clicks = run.clicks,
                                   !.click_failed = run.click_failed,
                                   !.raised = run.failed_count > 0]
    /\ UNCHANGED <<app, steps, env_vars, pc, current_index, final_status, state,
                   events, loop, dispatched, last>>

-----------------------------------------------------------------------------
(* The name of a downloaded file.                                          *)

\* the characters of r'[<>:"/\\|?*]'; the backslash is written as its name
ForbiddenChars == {"<", ">", ":", "QUOTE", "/", "BACKSLASH", "|", "?", "*"}

\* company names, character by character: empty, plain, and with every
\* character the pattern removes
CompanyNames == {<<>>,
                 <<"A", "c", "m", "e">>,
                 <<"A", "/", "B", ":", "C">>,
                 <<"?", "*">>,
                 <<"<", "A", ">", " ", "QUOTE", "b", "QUOTE", "BACKSLASH", "|">>}

\* self.workflow.get('name', ''): two names of report_map that are VAT,
\* two that are not (one without a number), a name not in the map, no name
FilenameWorkflows == {"vat_returns", "trial_balance_report",
                      "get_financial_year_end", "my_report", ""}

FileExts == {".xlsx", ""}

\* a text that has the shape of no date format, character by character
Raw(chars) == [t |-> "raw", chars |-> chars]

\* what the store holds under vat_return_start_date and vat_return_end_date:
\* nothing, '', a date, a date that does not exist, a text that is no date
Periods == {<<Unset, Unset>>,
            <<Text("d b Y", 1, 4, 2024), Unset>>,
            <<Str(""), Text("d b Y", 30, 6, 2024)>>,
            <<Text("d b Y", 1, 4, 2024), Text("d/m/Y", 30, 6, 2024)>>,
            <<Text("Y-m-d", 31, 2, 2024), Raw(<<"Q", "1", " ", "-", " ", "2", "4">>)>>,
            <<Raw(<<"Q", "1", " ", "-", " ", "2", "4">>), Text("Y-m-d", 30, 6, 2024)>>}

Lits(chars) == [k \in 1..Len(chars) |-> Lit(chars[k])]

\* the characters of a stored text
TextPieces(date_str) ==
    CASE date_str.t = "raw" -> Lits(date_str.chars)
      [] date_str.t = "text" /\ date_str.fmt = "Y-m-d" ->
            <<Num(4, date_str.y), Lit("-"), Num(2, date_str.m), Lit("-"),
              Num(2, date_str.d)>>
      [] date_str.t = "text" /\ date_str.fmt = "d/m/Y" ->
            <<Num(2, date_str.d), Lit("/"), Num(2, date_str.m), Lit("/"),
              Num(4, date_str.y)>>
      [] OTHER ->
            <<Num(2, date_str.d), Lit(" "), Mon(date_str.m), Lit(" "),
              Num(4, date_str.y)>>

\* if not date_str / if period_start
Falsy(date_str) == date_str = Unset \/ date_str = Str("")

_get_report_prefix(workflow_name) ==
    CASE workflow_name = "trial_balance_report" ->
            [num_prefix |-> "1", report_name |-> "Trial Balance", is_vat |-> FALSE]
      [] workflow_name = "vat_returns" ->
            [num_prefix |-> "1", report_name |-> "VAT", is_vat |-> TRUE]
      [] workflow_name = "get_financial_year_end" ->
            [num_prefix |-> "", report_name |-> "Financial Year End", is_vat |-> FALSE]
      [] OTHER ->
            [num_prefix |-> "", report_name |-> workflow_name, is_vat |-> FALSE]

_format_date_compact(date_str) ==
    IF Falsy(date_str) THEN <<>>
    ELSE IF _parse_date(date_str) # NoDate
    THEN _format_date(_parse_date(date_str), <<"%d", "%m", "%Y">>)
    ELSE SelectSeq(TextPieces(date_str), LAMBDA p : p \notin {Lit(" "), Lit("-")})

\* the substitution kept every character
SafeCompanyUnfiltered(company_name) ==
    IF company_name # <<>> THEN company_name
    ELSE <<"U", "n", "k", "n", "o", "w", "n">>

\* re.sub(r'[<>:"/\\|?*]', '', company_name) if company_name else 'Unknown'
SafeCompany(company_name) ==
    IF company_name # <<>>
    THEN SelectSeq(company_name, LAMBDA c : c \notin ForbiddenChars)
    ELSE <<"U", "n", "k", "n", "o", "w", "n">>

\* f"{a}{b}..." over the parts that are not ''
Joined(parts) == SelectSeq(parts, LAMBDA p : p # Lit(""))

_format_download_filename(variables, workflow_name, company_name, file_ext) ==
    LET prefix == _get_report_prefix(workflow_name)
        safe_company == SafeCompany(company_name)
        period_start == variables["vat_return_start_date"]
        period_end == variables["vat_return_end_date"]
        tail == <<Lit("_")>> \o Lits(safe_company) \o <<Lit(file_ext)>>
        new_filename ==
            IF prefix.is_vat
            THEN IF ~Falsy(period_start) /\ ~Falsy(period_end)
                 THEN <<Lit(prefix.num_prefix), Lit(" "), Lit("VAT"), Lit("_")>>
                      \o _format_date_compact(period_start) \o <<Lit("-")>>
                      \o _format_date_compact(period_end) \o tail
                 ELSE <<Lit(prefix.num_prefix), Lit(" "), Lit("VAT")>> \o tail
            ELSE IF prefix.num_prefix # ""
                 THEN <<Lit(prefix.num_prefix), Lit(" "), Lit(prefix.report_name)>>
                      \o tail
                 ELSE <<Lit(prefix.report_name)>> \o tail
    IN  [new_filename |-> Joined(new_filename), client_folder |-> safe_company,
         subfolder |-> ""]

\* the arguments and the two variables the last call was made with
FilenameInputs(c) ==
    <<c.workflow_name, c.company_name, c.file_ext, c.period_start, c.period_end>>

\* self._format_download_filename(workflow_name, company_name, file_ext)
FormatFilenameCall ==
    /\ \E workflow_name \in FilenameWorkflows, company_name \in CompanyNames,
          file_ext \in FileExts :
          LET r == _format_download_filename(state.variables, workflow_name,
                                             company_name, file_ext)
              now == [op |-> "format_download_filename", n |-> 1,
                      workflow_name |-> workflow_name,
                      company_name |-> company_name, file_ext |-> file_ext,
                      period_start |-> state.variables["vat_return_start_date"],
                      period_end |-> state.variables["vat_return_end_date"],
                      company |-> state.variables["company_name"],
                      again |-> FALSE,
                      new_filename |-> r.new_filename,
                      client_folder |-> r.client_folder,
                      subfolder |-> r.subfolder]
          IN  call' = [now EXCEPT !.again =
                          /\ call.op = "format_download_filename"
                          /\ FilenameInputs(call) = FilenameInputs(now)
                          /\ call.company # state.variables["company_name"]]
    /\ UNCHANGED <<app, steps, env_vars, pc, current_index, final_status, state,
                   events, loop, dispatched, last>>

\* between two downloads the handlers store the period of the next return,
\* the company's name and the path of the file
FilenameStore ==
    /\ \E period \in Periods :
          state' = [state EXCEPT !.variables["vat_return_start_date"] = period[1],
                                 !.variables["vat_return_end_date"] = period[2]]
    /\ UNCHANGED <<app, steps, env_vars, pc, current_index, final_status, events,
                   loop, dispatched, last, call>>

\* company_name is stored by the download handlers themselves
FilenameOtherStore ==
    /\ \E value \in {Unset, Str("Acme")} :
          state' = [state EXCEPT !.variables["company_name"] = value]
    /\ UNCHANGED <<app, steps, env_vars, pc, current_index, final_status, events,
                   loop, dispatched, last, call>>

-----------------------------------------------------------------------------
(* _execute_check_url on URLs.                                             *)

\* self._page.url, character by character
Urls == {<<"x", "/", "D", "a", "s", "h">>, <<"x", "/", "d", "a", "s", "h">>,
         <<"x", "/", "l", "o", "g", "i", "n">>}

\* a condition of the step; an absent 'contains' or 'matches' is the empty
\* text, which is as false as None
Condition(contains, matches, goto_step) ==
    [contains |-> contains, matches |-> matches, goto_step |-> goto_step]

\* substrings in either case, regular expressions that are plain words, and
\* a condition with neither key
Conditions == {Condition(<<"d", "a", "s", "h">>, <<>>, "A"),
               Condition(<<"D", "A", "S", "H">>, <<>>, "B"),
               Condition(<<>>, <<"D", "a", "s", "h">>, "C"),
               Condition(<<>>, <<"l", "o", "g", "i", "n">>, "A"),
               Condition(<<>>, <<>>, "B")}

\* step.get('conditions', []): up to two conditions
UrlConditionLists ==
    {<<>>} \cup {<<c>> : c \in Conditions}
           \cup {<<c, d>> : c \in Conditions, d \in Conditions}

\* re.search(pattern, string) for a pattern of plain characters
Search(pattern, string) == Contains(string, pattern)

\* the for loop over the conditions and the return after it
RECURSIVE FirstGoto(_, _, _)
FirstGoto(current_url, conditions, default_step) ==
    IF conditions = <<>> THEN default_step
    ELSE LET condition == Head(conditions)
         IN  IF /\ condition.contains # <<>>
                /\ Contains(current_url, Lower(condition.contains))
             THEN condition.goto_step
             ELSE IF condition.matches # <<>> /\ Search(condition.matches, current_url)
             THEN condition.goto_step
             ELSE FirstGoto(current_url, Tail(conditions), default_step)

\* _execute_check_url on the page at url
CheckUrl(url, conditions, default_step) ==
    LET current_url == Lower(url)
    IN  FirstGoto(current_url, conditions, default_step)

\* await self._execute_check_url(step)
CheckUrlCall ==
    /\ call.op = "page"
    /\ call' = [call EXCEPT !.op = "check_url", !.n = 1,
                            !.result = CheckUrl(call.url, call.conditions,
                                                call.default_step)]
    /\ UNCHANGED <<app, steps, env_vars, pc, current_index, final_status, state,
                   events, loop, dispatched, last>>

-----------------------------------------------------------------------------
(* The page handle: the chain driver's `page` and the engine's self._page.  *)
(* Tabs are numbered in the order they open; tab 1 is context.pages[0].     *)

\* the links of the chain followed here
MaxLinks == 3

\* the tabs the browser comes to hold
MaxTabs == 3

\* the steps dispatched in one link
MaxPageSteps == 3

\* the chain driver after launch_persistent_context: page = context.pages[0]
PageLaunched ==
    [op |-> "launch", n |-> 0, at |-> "chain", link |-> 0, page |-> 1, _page |-> 0,
     tabs |-> 1, operated |-> 0]

\* engine = WorkflowEngine(workflow_path); engine.run(context=context,
\* page=page): self._page = page
PageLinkStart ==
    /\ call.at = "chain"
    /\ call.link < MaxLinks
    /\ call' = [call EXCEPT !.op = "run", !.at = "link", !.link = @ + 1, !.n = 0,
                            !._page = call.page]
    /\ UNCHANGED <<app, steps, env_vars, pc, current_index, final_status, state,
                   events, loop, dispatched, last>>

\* a handler acts on self._page
PageStep ==
    /\ call.at = "link"
    /\ call.n < MaxPageSteps
    /\ call' = [call EXCEPT !.op = "step", !.n = @ + 1, !.operated = call._page]
    /\ UNCHANGED <<app, steps, env_vars, pc, current_index, final_status, state,
                   events, loop, dispatched, last>>

\* _execute_click with expect_new_tab: the click on self._page opens a tab,
\* self._page = new_page
PageClickNewTab ==
    /\ call.at = "link"
    /\ call.n < MaxPageSteps
    /\ call.tabs < MaxTabs
    /\ call' = [call EXCEPT !.op = "click_new_tab", !.n = @ + 1,
                            !.operated = call._page,
                            !.tabs = @ + 1, !._page = call.tabs + 1]
    /\ UNCHANGED <<app, steps, env_vars, pc, current_index, final_status, state,
                   events, loop, dispatched, last>>

\* engine.run returns its state; the driver's page is what it was
PageLinkEnd ==
    /\ call.at = "link"
    /\ call' = [call EXCEPT !.op = "return", !.at = "chain"]
    /\ UNCHANGED <<app, steps, env_vars, pc, current_index, final_status, state,
                   events, loop, dispatched, last>>

-----------------------------------------------------------------------------
(* The engine of each link: run_workflow_chain constructs a WorkflowEngine *)
(* per link, and handlers store and resolve variables on its state.        *)

\* the variables the links of the chain store
LinkKeys == {"financial_year_start_date", "company_name"}

\* the values they store
LinkValues == {Text("d b Y", 1, 3, 2024), Str("Acme Ltd")}

\* the state object of the engine constructed before
WorkflowStateShared == state

\* WorkflowState(): every field from its default_factory
WorkflowState ==
    [variables |-> [k \in Keys |-> Unset], current_step |-> None,
     completed_steps |-> <<>>, errors |-> <<>>]

\* the chain driver at the head of its links, for the client it processes
LinkLaunched(client) ==
    [op |-> "launch", n |-> 0, at |-> "chain", link |-> 0, client |-> client,
     stored |-> {}, earlier |-> {}, name |-> None, result |-> NoResult]

\* engine = WorkflowEngine(workflow_path); if client_name:
\* engine.state.variables["selected_client"] = client_name; engine.run(...)
LinkEngine ==
    /\ call.at = "chain"
    /\ call.link < MaxLinks
    /\ state' = [WorkflowState EXCEPT
                    !.variables = IF call.client # Unset
                                  THEN [@ EXCEPT !["selected_client"] = call.client]
                                  ELSE @]
    /\ events' = <<>>
    /\ call' = [call EXCEPT !.op = "run", !.at = "link", !.link = @ + 1, !.n = 0,
                            !.stored = {}]
    /\ UNCHANGED <<app, steps, env_vars, pc, current_index, final_status, loop,
                   dispatched, last>>

\* a handler of the link stores a variable
LinkStore ==
    /\ call.at = "link"
    /\ call.n < MaxPageSteps
    /\ \E key \in LinkKeys, value \in LinkValues :
          LET ve == _store_variable(<<state.variables, events>>, key, value)
          IN  /\ state' = [state EXCEPT !.variables = ve[1]]
              /\ events' = ve[2]
              /\ call' = [call EXCEPT !.op = "store", !.n = @ + 1,
                                      !.stored = @ \cup {key}]
    /\ UNCHANGED <<app, steps, env_vars, pc, current_index, final_status, loop,
                   dispatched, last>>

\* a handler of the link resolves "${name}"
LinkResolve ==
    /\ call.at = "link"
    /\ call.n < MaxPageSteps
    /\ \E name \in LinkKeys \cup {"selected_client"} :
          call' = [call EXCEPT !.op = "resolve", !.n = @ + 1, !.name = name,
                               !.result = _resolve_variable(name).result]
    /\ UNCHANGED <<app, steps, env_vars, pc, current_index, final_status, state,
                   events, loop, dispatched, last>>

\* engine.run returns the engine's state to the driver
LinkReturn ==
    /\ call.at = "link"
    /\ call' = [call EXCEPT !.op = "return", !.at = "chain",
                            !.earlier = @ \cup call.stored]
    /\ UNCHANGED <<app, steps, env_vars, pc, current_index, final_status, state,
                   events, loop, dispatched, last>>

-----------------------------------------------------------------------------
(* The definitions and the initial state.                                  *)

\* the (on_error, on_timeout) pairs a step of the model declares: absent,
\* itself, a later step, a step that does not exist
Branches == {<<None, None>>, <<"A", None>>, <<"C", None>>, <<Missing, None>>,
             <<None, "C">>, <<"C", "A">>}

\* a step of any action kind but the loops, with every combination of
\* optional, branch targets and the keys only some handlers read
FreeSteps(id) ==
    {[StepDef(id, a) EXCEPT
         !.optional = opt, !.on_error = br[1], !.on_timeout = br[2],
         !.fail_on_error = flag, !.wait_for_url = flag, !.save_to = flag,
         !.conditions = IF flag THEN <<br[1]>> ELSE <<>>,
         !.default_step = br[2],
         !.save_as = IF flag THEN "financial_year_start_date" ELSE None] :
        a \in (Handlers \ LoopHandlers) \cup {UnknownAction},
        opt \in BOOLEAN, br \in Branches, flag \in BOOLEAN}

\* the steps that follow it
PoolSteps(id) ==
    {StepDef(id, "click"),
     [StepDef(id, "check_url") EXCEPT !.conditions = <<"A">>]}

\* the third step may repeat the first step's id
LastSteps == {StepDef("C", "click"), StepDef("A", UnknownAction)}

Definitions ==
    {<<a>> : a \in FreeSteps("A")}
    \cup {<<a, b>> : a \in FreeSteps("A"), b \in PoolSteps("B")}
    \cup {<<a, b, c>> : a \in FreeSteps("A"), b \in PoolSteps("B"), c \in LastSteps}

\* the sub_steps of a loop: none, or a required fill followed by a click
SubLists ==
    {<<>>, <<StepDef("S1", "fill"), StepDef("S2", "click")>>}

\* sub_steps of which the first, when its click fails, names the third
BranchingSubSteps ==
    <<[StepDef("S1", "click") EXCEPT !.optional = TRUE, !.on_error = "S3"],
      StepDef("S2", "fill"), StepDef("S3", "click")>>

\* a loop step of either kind; only loop_elements reads the two selectors
LoopSteps(id) ==
    {[StepDef(id, a) EXCEPT
         !.filter_date_from = f, !.reverse_order = rev,
         !.date_field_selector = sel, !.action_selector = sel,
         !.sub_steps = subs] :
        a \in LoopHandlers, f \in {None, "financial_year_start_date"},
        rev \in BOOLEAN, sel \in BOOLEAN, subs \in SubLists}

\* a loop alone, or after the step that reads the filter date off the page
LoopDefinitions ==
    {<<l>> : l \in {m \in LoopSteps("A") :
                       m.action = "loop_vat_returns" => ~m.action_selector}}
    \cup {<<[StepDef("A", "read_text") EXCEPT
               !.optional = TRUE, !.save_as = "financial_year_start_date"],
            [StepDef("B", "loop_vat_returns") EXCEPT
               !.filter_date_from = "financial_year_start_date"]>>}
    \cup {<<[StepDef("A", a) EXCEPT !.sub_steps = BranchingSubSteps]>> :
             a \in LoopHandlers}

NoVariables == [k \in Keys |-> Unset]

\* WorkflowEngine.__init__, and the variables the caller sets before run
Init ==
    /\ \/ /\ steps \in Definitions
          /\ env_vars = NoVariables
       \/ /\ steps \in LoopDefinitions
          /\ \E v \in {Unset} \cup PageTexts :
                /\ v # Unset => Len(steps) = 1 /\ steps[1].filter_date_from # None
                /\ env_vars = [NoVariables EXCEPT !["financial_year_start_date"] = v]
    /\ pc = "start"
    /\ current_index = 0
    /\ final_status = None
    /\ \E client \in {Unset, Str("Client A")} :
          state = [variables |-> [NoVariables EXCEPT !["selected_client"] = client],
                   current_step |-> None,
                   completed_steps |-> <<>>,
                   errors |-> <<>>]
    /\ events = <<>>
    /\ loop = NoLoop
    /\ dispatched = <<>>
    /\ last = [id |-> None, level |-> None, kind |-> None, target |-> None,
               failed |-> FALSE, index |-> 0, tick |-> 0, issue |-> None]
    /\ app = AppIdle
    /\ call = NoCall

Next ==
    \/ RunStart
    \/ ExecuteStep
    \/ LoopVatEnter
    \/ LoopVatItem
    \/ LoopVatSubStep
    \/ LoopVatItemEnd
    \/ LoopVatReturn
    \/ LoopElementsEnter
    \/ LoopElementsItem
    \/ LoopElementsSubStep
    \/ LoopElementsItemEnd
    \/ LoopElementsReturn
    \/ RunComplete

Spec == Init /\ [][Next]_vars

\* the process of app.py: no engine of the model runs, the links of a chain
\* end as engine.run can end
ChainInit ==
    /\ Init
    /\ steps = <<StepDef("A", "click")>>
    /\ state.variables["selected_client"] = Unset

\* the environments the engine is constructed with
StoreEnvs == {NoVariables,
              [NoVariables EXCEPT !["start"] = Text("d/m/Y", 1, 1, 2025)]}

\* an engine on which calls are made, one after the other
StoreInit ==
    /\ steps = <<StepDef("A", UnknownAction),
                 [StepDef("B", "click") EXCEPT !.optional = TRUE, !.on_error = "A"],
                 StepDef("C", "capture_state")>>
    /\ env_vars \in StoreEnvs
    /\ pc = "start"
    /\ current_index = 0
    /\ final_status = None
    /\ state = [variables |-> NoVariables, current_step |-> None,
                completed_steps |-> <<>>, errors |-> <<>>]
    /\ events = <<>>
    /\ loop = NoLoop
    /\ dispatched = <<>>
    /\ last = [id |-> None, level |-> None, kind |-> None, target |-> None,
               failed |-> FALSE, index |-> 0, tick |-> 0, issue |-> None]
    /\ app = AppIdle
    /\ call = NoCall

StoreNext ==
    \/ StoreCall
    \/ ResolveCall
    \/ DateAddCall
    \/ StepCall

StoreSpec == StoreInit /\ [][StoreNext]_vars

\* what the store holds when _resolve_variable is called
ResolveStores ==
    {NoVariables,
     [NoVariables EXCEPT !["start"] = Text("d b Y", 1, 3, 2024)],
     [NoVariables EXCEPT !["start"] = Text("other", 0, 0, 0),
                         !["status"] = [t |-> "int", n |-> 3]]}

\* an engine with something in its environment and its store
ResolveInit ==
    /\ steps = <<StepDef("A", "click")>>
    /\ env_vars \in StoreEnvs
    /\ pc = "start"
    /\ current_index = 0
    /\ final_status = None
    /\ \E variables \in ResolveStores :
          state = [variables |-> variables, current_step |-> None,
                   completed_steps |-> <<>>, errors |-> <<>>]
    /\ events = <<>>
    /\ loop = NoLoop
    /\ dispatched = <<>>
    /\ last = [id |-> None, level |-> None, kind |-> None, target |-> None,
               failed |-> FALSE, index |-> 0, tick |-> 0, issue |-> None]
    /\ app = AppIdle
    /\ call = NoCall

ResolveNext == ResolveValueCall

ResolveSpec == ResolveInit /\ [][ResolveNext]_vars

\* a page with some columns checked and a select_columns step for it
ColumnsInit ==
    /\ steps = <<StepDef("A", "select_columns")>>
    /\ env_vars = NoVariables
    /\ pc = "start"
    /\ current_index = 0
    /\ final_status = None
    /\ state = [variables |-> NoVariables, current_step |-> None,
                completed_steps |-> <<>>, errors |-> <<>>]
    /\ events = <<>>
    /\ loop = NoLoop
    /\ dispatched = <<>>
    /\ last = [id |-> None, level |-> None, kind |-> None, target |-> None,
               failed |-> FALSE, index |-> 0, tick |-> 0, issue |-> None]
    /\ app = AppIdle
    /\ \E columns \in ColumnLists, checked \in SUBSET Columns :
          call = [op |-> "page", n |-> 0, columns |-> columns, checked |-> checked,
                  before |-> checked, clicks |-> 0, click_failed |-> FALSE,
                  raised |-> FALSE]

ColumnsNext == SelectColumnsCall

ColumnsSpec == ColumnsInit /\ [][ColumnsNext]_vars

FilenameInit ==
    /\ steps = <<StepDef("A", "wait_for_download")>>
    /\ env_vars = NoVariables
    /\ pc = "start"
    /\ current_index = 0
    /\ final_status = None
    /\ state = [variables |-> NoVariables, current_step |-> None,
                completed_steps |-> <<>>, errors |-> <<>>]
    /\ events = <<>>
    /\ loop = NoLoop
    /\ dispatched = <<>>
    /\ last = [id |-> None, level |-> None, kind |-> None, target |-> None,
               failed |-> FALSE, index |-> 0, tick |-> 0, issue |-> None]
    /\ app = AppIdle
    /\ call = NoCall

FilenameNext ==
    \/ FormatFilenameCall
    \/ FilenameStore
    \/ FilenameOtherStore

FilenameSpec == FilenameInit /\ [][FilenameNext]_vars

CheckUrlInit ==
    /\ steps = <<StepDef("A", "check_url"), StepDef("B", "click"),
                 StepDef("C", "click")>>
    /\ env_vars = NoVariables
    /\ pc = "start"
    /\ current_index = 0
    /\ final_status = None
    /\ state = [variables |-> NoVariables, current_step |-> None,
                completed_steps |-> <<>>, errors |-> <<>>]
    /\ events = <<>>
    /\ loop = NoLoop
    /\ dispatched = <<>>
    /\ last = [id |-> None, level |-> None, kind |-> None, target |-> None,
               failed |-> FALSE, index |-> 0, tick |-> 0, issue |-> None]
    /\ app = AppIdle
    /\ \E url \in Urls, conditions \in UrlConditionLists, default_step \in {None, "C"} :
          call = [op |-> "page", n |-> 0, url |-> url, conditions |-> conditions,
                  default_step |-> default_step, result |-> None]

CheckUrlNext == CheckUrlCall

CheckUrlSpec == CheckUrlInit /\ [][CheckUrlNext]_vars

PageInit ==
    /\ steps = <<[StepDef("A", "click") EXCEPT !.optional = TRUE]>>
    /\ env_vars = NoVariables
    /\ pc = "start"
    /\ current_index = 0
    /\ final_status = None
    /\ state = [variables |-> NoVariables, current_step |-> None,
                completed_steps |-> <<>>, errors |-> <<>>]
    /\ events = <<>>
    /\ loop = NoLoop
    /\ dispatched = <<>>
    /\ last = [id |-> None, level |-> None, kind |-> None, target |-> None,
               failed |-> FALSE, index |-> 0, tick |-> 0, issue |-> None]
    /\ app = AppIdle
    /\ call = PageLaunched

PageNext ==
    \/ PageLinkStart
    \/ PageStep
    \/ PageClickNewTab
    \/ PageLinkEnd

PageSpec == PageInit /\ [][PageNext]_vars

\* the chain driver before the first link of a client, or of no client
LinkInit ==
    /\ steps = <<[StepDef("A", "read_text") EXCEPT !.save_as = "company_name"]>>
    /\ env_vars = NoVariables
    /\ pc = "start"
    /\ current_index = 0
    /\ final_status = None
    /\ state = [variables |-> NoVariables, current_step |-> None,
                completed_steps |-> <<>>, errors |-> <<>>]
    /\ events = <<>>
    /\ loop = NoLoop
    /\ dispatched = <<>>
    /\ last = [id |-> None, level |-> None, kind |-> None, target |-> None,
               failed |-> FALSE, index |-> 0, tick |-> 0, issue |-> None]
    /\ app = AppIdle
    /\ \E client \in {Unset, Str("Client A")} : call = LinkLaunched(client)

LinkNext ==
    \/ LinkEngine
    \/ LinkStore
    \/ LinkResolve
    \/ LinkReturn

LinkSpec == LinkInit /\ [][LinkNext]_vars

ChainNext ==
    \/ start_workflow
    \/ stop_workflow
    \/ ChainBegin
    \/ ChainPaths
    \/ ChainNoPaths
    \/ ChainStart
    \/ ChainLaunch
    \/ ChainLink
    \/ ChainStep
    \/ ChainLinkEnd
    \/ ChainCompleted
    \/ ChainTryEnd
    \/ ChainExcept
    \/ ChainFinally
    \/ ChainCancelled

ChainSpec == ChainInit /\ [][ChainNext]_vars

\* the engine is one task that keeps going: every await of it comes back,
\* by its result, its timeout or its exception. The client's name takes no
\* part in where a run goes, so the fair runs are those without one.
FairInit == Init /\ state.variables["selected_client"] = Unset

FairSpec == FairInit /\ [][Next]_vars /\ WF_vars(Next)

-----------------------------------------------------------------------------
(* The run of one workflow: fatal stop, absorbed exception, fall through,  *)
(* jump resolution.                                                        *)

\* a dispatch at `level` has just ended
Ended(level) == last' # last /\ last'.level = level

\* a step of the workflow has just ended in the way `kind`
TopEnded(kind) == Ended("top") /\ last'.kind = kind

\* i is the first 0-based index of id among the steps
IsFirstIndex(id, i) ==
    /\ i \in 0..(Len(steps) - 1)
    /\ steps[i + 1].id = id
    /\ \A j \in 0..(i - 1) : steps[j + 1].id # id

\* C1: when the handler of a step of the workflow raises StepFailedError the
\* run stops at that step: nothing is dispatched after it, its id is not
\* appended to completed_steps, the errors list gains exactly one entry, for
\* that step and marked fatal, and the run ends with status failed. With
\* steps [A, B] and A failing fatally, B is never dispatched and
\* completed_steps stays empty.
C1_FatalStopsRun ==
    [][/\ pc # "done"
       /\ TopEnded("StepFailedError") =>
             /\ pc' = "done"
             /\ final_status' = "failed"
             /\ state'.completed_steps = state.completed_steps
             /\ state'.errors =
                   Keep(state.errors, [step |-> last'.id, fatal |-> TRUE], MaxLog)
             /\ (Len(events') < MaxEvents =>
                    events'[Len(events')] = [type |-> "workflow_end", status |-> "failed"])
             /\ (Len(steps) = 2 /\ last'.index = 0 /\ dispatched = <<>> =>
                    /\ dispatched' = <<[id |-> steps[1].id, level |-> "top"]>>
                    /\ state'.completed_steps = <<>>)
      ]_vars

\* [A, B], A failed fatally: the run is over, B was never dispatched
C1_Witness ==
    /\ pc = "done"
    /\ final_status = "failed"
    /\ Len(steps) = 2
    /\ last.kind = "StepFailedError"
    /\ last.index = 0
    /\ dispatched = <<[id |-> "A", level |-> "top"]>>
    /\ state.completed_steps = <<>>
    /\ state.errors = <<[step |-> "A", fatal |-> TRUE]>>

\* C2: when the handler of a step of the workflow raises an exception that
\* is no StepFailedError, the step is recorded as a non-fatal error, the run
\* goes on, and if the step declares on_error naming an existing step the
\* next step dispatched is that one, the steps between being passed over.
\* With [A (on_error = C), B, C] and A raising, C runs next and B does not.
C2_ExceptionTakesOnError ==
    [][/\ Ended("top") => last'.index = current_index
       /\ TopEnded("Exception") =>
             LET step == steps[last'.index + 1]
             IN  /\ pc' = "loop"
                 /\ final_status' = final_status
                 /\ state'.completed_steps = state.completed_steps
                 /\ state'.errors =
                       Keep(state.errors, [step |-> step.id, fatal |-> FALSE], MaxLog)
                 /\ \A i \in 0..(Len(steps) - 1) :
                       IsFirstIndex(step.on_error, i) => current_index' = i
      ]_vars

\* [A (on_error = C), B, C]: A raised, C ran next, B never ran
C2_Witness ==
    /\ Len(steps) = 3
    /\ steps[1].on_error = "C"
    /\ steps[2].id = "B"
    /\ steps[3].id = "C"
    /\ dispatched = <<[id |-> "A", level |-> "top"], [id |-> "C", level |-> "top"]>>
    /\ state.errors = <<[step |-> "A", fatal |-> FALSE]>>
    /\ state.completed_steps = <<"C">>
    /\ pc = "done"
    /\ final_status = "completed"

\* C3: the run starts at step index 0; after a step whose handler returns no
\* jump target the id is appended to completed_steps, a success step event
\* is recorded and the next index is exactly one greater; the run ends with
\* status completed as soon as the index reaches the number of steps.
C3_FallThrough ==
    [][/\ pc = "start" => pc' = "loop" /\ current_index' = 0
       /\ (TopEnded("return") /\ last'.target = None) =>
             /\ state'.completed_steps = Keep(state.completed_steps, last'.id, MaxLog)
             /\ (Len(events') < MaxEvents =>
                    events'[Len(events')] = StepEvent(steps[current_index + 1], "success"))
             /\ current_index' = current_index + 1
             /\ pc' = "loop"
       /\ (pc = "loop" /\ current_index >= Len(steps)) =>
             /\ pc' = "done"
             /\ final_status' = "completed"
             /\ dispatched' = dispatched
             /\ state' = state
      ]_vars

\* [A, B] ran from index 0 through both steps and completed
C3_Witness ==
    /\ pc = "done"
    /\ final_status = "completed"
    /\ Len(steps) = 2
    /\ current_index = 2
    /\ dispatched = <<[id |-> "A", level |-> "top"], [id |-> "B", level |-> "top"]>>
    /\ state.completed_steps = <<"A", "B">>
    /\ last.target = None

\* the value _execute_step has just handed back to run
Returned == IF last'.kind = "Exception"
            THEN steps[last'.index + 1].on_error
            ELSE last'.target

\* C4: when a step of the workflow returns a jump target, the next index is
\* the first index whose step id equals the target; when no step has that
\* id the run continues at the current index plus one. A target that
\* matches no step is no error and not fatal.
C4_JumpResolution ==
    [][(Ended("top") /\ last'.kind \in {"return", "Exception"} /\ Returned # None) =>
          /\ pc' = "loop"
          /\ final_status' = final_status
          /\ last'.kind = "return" => state'.errors = state.errors
          /\ IF \E i \in 0..(Len(steps) - 1) : steps[i + 1].id = Returned
             THEN \A i \in 0..(Len(steps) - 1) :
                     IsFirstIndex(Returned, i) => current_index' = i
             ELSE current_index' = current_index + 1
      ]_vars

\* the second step jumped to "A", an id the first and the third step share:
\* the run is back at index 0
C4_Witness ==
    /\ Len(steps) = 3
    /\ steps[3].id = "A"
    /\ last.level = "top"
    /\ last.kind = "return"
    /\ last.index = 1
    /\ last.target = "A"
    /\ current_index = 0
    /\ pc = "loop"

-----------------------------------------------------------------------------
(* Termination.                                                            *)

\* the jump targets a step declares
Targets(step) ==
    ({step.on_error, step.on_timeout, step.default_step}
        \cup {step.conditions[i] : i \in 1..Len(step.conditions)}) \ {None}

\* every jump target a step declares names no step, or a step after it
ForwardOnly ==
    \A i \in 0..(Len(steps) - 1) :
       \A t \in Targets(steps[i + 1]) :
          \A j \in 0..(Len(steps) - 1) : IsFirstIndex(t, j) => j > i

\* C5 as the claim has it: every run eventually ends, with status completed
\* or failed, and end_workflow is recorded.
C5_EveryRunEnds == <>(pc = "done" /\ final_status \in {"completed", "failed"})

\* C5: every run of a definition whose jump targets all name no step or a
\* step after the one declaring them eventually ends, with status completed
\* or failed; a definition with a target at or before its step need not.
C5_ForwardRunsEnd ==
    ForwardOnly => <>(pc = "done" /\ final_status \in {"completed", "failed"})

\* a run that took a forward jump over a step and ended
C5_Witness ==
    /\ ForwardOnly
    /\ pc = "done"
    /\ Len(steps) = 3
    /\ last.level = "top"
    /\ last.index = 2
    /\ dispatched = <<[id |-> "A", level |-> "top"], [id |-> "C", level |-> "top"]>>

-----------------------------------------------------------------------------
(* Failures: which are fatal, and what is recorded of them.                *)

\* C6: a failing step that declares optional = true, or an on_error or
\* on_timeout target, is never fatal, whatever its action kind: its failure
\* does not end the run, which goes on at the target or at the next index.
C6_SoftFailureNeverFatal ==
    (last.level = "top" /\ last.failed) =>
        LET step == steps[last.index + 1]
        IN  (step.optional \/ step.on_error # None \/ step.on_timeout # None) =>
               /\ last.kind # "StepFailedError"
               /\ final_status # "failed"

\* C7: every failure of a step's action, fatal or soft, the failure an
\* optional step absorbs included, adds an error entry for that step to
\* state.errors and an error event to the report, and the step is not
\* recorded as a success.
C7_EveryFailureRecorded ==
    [][(last' # last /\ last'.failed) =>
          /\ (Len(state.errors) < MaxLog =>
                 /\ Len(state'.errors) = Len(state.errors) + 1
                 /\ state'.errors[Len(state'.errors)].step = last'.id)
          /\ (Len(events') < MaxEvents =>
                 \E i \in (Len(events) + 1)..Len(events') :
                    /\ events'[i].type = "error"
                    /\ events'[i].step_id = last'.id)
          /\ state'.completed_steps = state.completed_steps
      ]_vars

-----------------------------------------------------------------------------
(* The loop handlers: a failing item, the count, the date filter.          *)

\* the items the for loop of the handler in flight goes through
Planned == IF loop.kind = "loop_vat_returns" THEN loop.to_process ELSE loop.indices

\* a sub-step of some item of the handler in flight has raised StepFailedError
ItemFailed ==
    \/ loop.sub_step_failed
    \/ \E i \in 1..Len(loop.trail) : loop.trail[i].fate = "failed"

\* C8: in both loop handlers a StepFailedError raised by a sub-step of one
\* item never leaves the handler: the rest of that item's sub-steps is not
\* run, every later item is still attempted, the loop step returns normally
\* and the run is not ended by it.
C8_ItemFailureContained ==
    [][/\ (Ended("sub") /\ last'.kind = "StepFailedError") =>
             /\ pc' = "in_loop"
             /\ loop'.at = "after_sub_steps"
             /\ final_status' = final_status
       /\ (pc = "in_loop" /\ pc' # "in_loop" /\ ItemFailed) =>
             /\ last'.kind = "return"
             /\ loop.pos >= Len(Planned)
             /\ pc' = "loop"
             /\ final_status' = final_status
      ]_vars

\* C9: when either loop handler has finished, loop_processed_count is the
\* number of items whose whole sub-step sequence succeeded; an item one of
\* whose sub-steps raised StepFailedError is not counted.
C9_CountsSucceededItems ==
    [][(pc = "in_loop" /\ pc' = "loop" /\ last'.kind = "return") =>
          state'.variables["loop_processed_count"] =
             [t |-> "int",
              n |-> Cardinality({i \in 1..Len(loop.trail) : loop.trail[i].fate = "ok"})]
      ]_vars

\* a date as one number, year first
DayNumber(date) == date.y * 10000 + date.m * 100 + date.d

OnOrAfter(date, filter_date) == DayNumber(date) >= DayNumber(filter_date)

\* s holds x
Holds(s, x) == \E k \in 1..Len(s) : s[k] = x

\* how many items of the loop_elements handler in flight ended as fate
Fated(fate) == Cardinality({i \in 1..Len(loop.trail) : loop.trail[i].fate = fate})

FirstOfApril == [y |-> 2024, m |-> 4, d |-> 1]

\* the dates of the example: 31 Mar 2024, 01 Apr 2024, 15 Apr 2024
ExampleDates == {[y |-> 2024, m |-> 3, d |-> 31], FirstOfApril,
                 [y |-> 2024, m |-> 4, d |-> 15]}

\* C10: with a filter date configured, an item whose date was extracted is
\* kept for processing exactly when that date is on or after the filter date,
\* the filter date itself included, and is skipped otherwise; with no filter
\* configured every discovered item is kept and none is skipped. For the
\* filter 01 Apr 2024 and items dated 31 Mar 2024, 01 Apr 2024 and
\* 15 Apr 2024, two items are kept and one is skipped.
C10_FilterInclusive ==
    pc = "in_loop" =>
       /\ loop.kind = "loop_vat_returns" =>
             /\ \A i \in 1..Len(loop.found) :
                   LET item == loop.found[i]
                       date == _parse_date(item.startDate)
                   IN  /\ Holds(loop.to_process, item) # Holds(loop.skipped, item)
                       /\ (loop.filter_date # NoDate /\ date # NoDate) =>
                             (Holds(loop.to_process, item)
                                 <=> OnOrAfter(date, loop.filter_date))
             /\ Len(loop.to_process) + Len(loop.skipped) = Len(loop.found)
             /\ loop.step.filter_date_from = None => loop.skipped = <<>>
             /\ (/\ loop.filter_date = FirstOfApril
                 /\ Len(loop.found) = 3
                 /\ {_parse_date(loop.found[i].startDate) : i \in 1..3} = ExampleDates)
                   => Len(loop.to_process) = 2 /\ Len(loop.skipped) = 1
       /\ loop.kind = "loop_elements" =>
             /\ \A i \in 1..Len(loop.trail) :
                   LET row == loop.trail[i]
                   IN  /\ (loop.filter_date # NoDate /\ row.row_date # NoDate) =>
                             (row.fate # "skipped"
                                 <=> OnOrAfter(row.row_date, loop.filter_date))
                       /\ row.fate \in {"ok", "failed"} =>
                             (loop.filter_date = NoDate \/ row.row_date = NoDate
                              \/ OnOrAfter(row.row_date, loop.filter_date))
             /\ loop.skipped = Fated("skipped")
             /\ loop.step.filter_date_from = None => loop.skipped = 0
             /\ (/\ loop.filter_date = FirstOfApril
                 /\ Len(loop.trail) = 3
                 /\ {loop.trail[i].row_date : i \in 1..3} = ExampleDates)
                   => loop.skipped = 1 /\ Fated("skipped") = 1

\* the example on the VAT list: filter 01 Apr 2024, the three periods found,
\* the one of 31 Mar 2024 skipped, the two others gone through and counted
C10_Witness ==
    /\ pc = "in_loop"
    /\ loop.kind = "loop_vat_returns"
    /\ loop.filter_date = FirstOfApril
    /\ Len(loop.found) = 3
    /\ {_parse_date(loop.found[i].startDate) : i \in 1..3} = ExampleDates
    /\ Len(loop.skipped) = 1
    /\ _parse_date(loop.skipped[1].startDate) = [y |-> 2024, m |-> 3, d |-> 31]
    /\ Len(loop.to_process) = 2
    /\ loop.pos = 2
    /\ loop.processed = 2

-----------------------------------------------------------------------------
(* The loop handlers: order, and the blocked VAT page.                     *)

\* the discovered items the filter of the handler in flight does not drop,
\* as a set of ids (an id is the item's place in the discovery order)
Selected ==
    IF loop.kind = "loop_vat_returns"
    THEN {loop.to_process[k].id : k \in 1..Len(loop.to_process)}
    ELSE {loop.rows[k].id : k \in 1..Len(loop.rows)}
            \ {loop.trail[k].id : k \in {j \in 1..Len(loop.trail) :
                                           loop.trail[j].fate = "skipped"}}

\* C11: with reverse_order set, the items selected for processing are
\* handled in exactly the reverse of their discovery order, one item at a
\* time: the sub-steps of an item run in their order and all end before the
\* item is closed and the next one starts. With three discovered items, no
\* filter date and every sub-step succeeding, loop_processed_count is 3.
C11_ReverseOrderOneAtATime ==
    [][/\ (pc' = "in_loop" /\ loop'.step.reverse_order) =>
             \A i \in 1..Len(loop'.trail) :
                /\ \A j \in (i + 1)..Len(loop'.trail) :
                      loop'.trail[i].id > loop'.trail[j].id
                /\ \A id \in Selected' :
                      id > loop'.trail[i].id =>
                         \E j \in 1..(i - 1) : loop'.trail[j].id = id
       /\ Ended("sub") =>
             /\ loop.at = "sub_steps"
             /\ last'.index = loop.sub - 1
             /\ loop'.trail = loop.trail
             /\ loop'.pos = loop.pos
       /\ (pc = "in_loop" /\ pc' = "in_loop" /\ loop'.trail # loop.trail) =>
             /\ loop.at # "sub_steps"
             /\ loop'.at = "items"
             /\ Len(loop'.trail) = Len(loop.trail) + 1
       /\ (/\ pc = "in_loop" /\ pc' = "loop" /\ last'.kind = "return"
           /\ loop.step.reverse_order
           /\ loop.step.filter_date_from = None
           /\ Len(loop.trail) = 3
           /\ \A i \in 1..3 : loop.trail[i].fate = "ok") =>
             /\ state'.variables["loop_processed_count"] = [t |-> "int", n |-> 3]
             /\ <<loop.trail[1].id, loop.trail[2].id, loop.trail[3].id>> = <<3, 2, 1>>
      ]_vars

\* three periods found, no filter, reverse_order: the third, the second and
\* the first went through their sub-steps in that order and were counted
C11_Witness ==
    /\ pc = "in_loop"
    /\ loop.kind = "loop_vat_returns"
    /\ loop.step.reverse_order
    /\ loop.step.filter_date_from = None
    /\ loop.step.sub_steps # <<>>
    /\ Len(loop.found) = 3
    /\ loop.trail = <<[id |-> 3, fate |-> "ok"], [id |-> 2, fate |-> "ok"],
                      [id |-> 1, fate |-> "ok"]>>
    /\ loop.processed = 3

\* the events of the report added by the step just taken
Added == [i \in 1..(Len(events') - Len(events)) |-> events'[Len(events) + i]]

\* C12: when the VAT list page reports a blocked state (HMRC access error,
\* missing VAT registration, no VAT returns), loop_vat_returns ends at once:
\* no discovery, no item triggered, no sub-step, loop_processed_count stored
\* as 0, exactly one skip event with a reason, and the step returns normally,
\* recorded as a success and not as an error.
C12_BlockedPageShortCircuits ==
    [][(Ended("top") /\ last'.issue # None) =>
          /\ last'.issue \in VatPageIssues
          /\ steps[last'.index + 1].action = "loop_vat_returns"
          /\ pc = "loop" /\ loop = NoLoop /\ loop' = NoLoop
          /\ dispatched' = Keep(dispatched, [id |-> last'.id, level |-> "top"], MaxLog)
          /\ state'.variables["loop_processed_count"] = [t |-> "int", n |-> 0]
          /\ \A k \in Keys \ {"loop_processed_count"} :
                state'.variables[k] = state.variables[k]
          /\ (Len(events') < MaxEvents =>
                 /\ Cardinality({i \in 1..Len(Added) : Added[i].type = "skip"}) = 1
                 /\ \A i \in 1..Len(Added) :
                       Added[i].type = "skip" => Added[i].reason = last'.issue
                 /\ \A i \in 1..Len(Added) : Added[i].type # "error")
          /\ last'.kind = "return"
          /\ state'.errors = state.errors
          /\ state'.completed_steps = Keep(state.completed_steps, last'.id, MaxLog)
          /\ pc' = "loop"
          /\ current_index' = current_index + 1
          /\ final_status' = final_status
      ]_vars

\* the page could not reach HMRC: the loop step is over, count 0, one skip
\* event, nothing but the loop step itself was dispatched
C12_Witness ==
    /\ last.issue = "hmrc_access_error"
    /\ last.kind = "return"
    /\ state.variables["loop_processed_count"] = [t |-> "int", n |-> 0]
    /\ dispatched = <<[id |-> "A", level |-> "top"]>>
    /\ state.completed_steps = <<"A">>
    /\ state.errors = <<>>
    /\ events = <<[type |-> "workflow_start"], SkipEvent("hmrc_access_error"),
                  StepEvent(steps[1], "success")>>

\* a chain task that was created and has not ended
ChainTasks == {t \in Tasks : Active(t)}

\* C13: at most one workflow chain is active in the process at any time,
\* whatever the interleaving of start and stop requests: a start request
\* issued while a chain task exists and has not ended creates no second one.
C13_OneChainActive == Cardinality(ChainTasks) <= 1

\* a chain task that has ended after launch_persistent_context returned
EndedAfterLaunch(t) == app.tasks[t].pc = "ended" /\ app.tasks[t].context # "none"

\* C14: a chain that has launched its browser context runs its cleanup
\* exactly once however it ends: when its task has ended the context and
\* the driver are closed, closed once, and one final idle status was sent
\* (the running flag is cleared on the way to that status).
C14_CleanupExactlyOnce ==
    \A t \in Tasks :
       EndedAfterLaunch(t) =>
          /\ app.tasks[t].context = "closed"
          /\ app.tasks[t].playwright = "closed"
          /\ app.tasks[t].closes = 1
          /\ app.tasks[t].idles = 1

\* C15: a chain reports one final status, cancelled, failed or completed,
\* and completed only when no link of the chain ended in a fatal failure.
C15_StatusTellsOutcome ==
    \A t \in Tasks :
       LET task == app.tasks[t]
       IN  /\ Len(task.ends) <= 1
           /\ Holds(task.ends, "completed") => ~task.fatal
\* C16: a step whose action kind is no known handler is a no-op
\* fall-through: it does not fail the run, adds no entry to state.errors
\* (nor to completed_steps), and the step dispatched next is the one at
\* the following index.
C16_UnknownActionFallsThrough ==
    [][/\ (last' # last /\ last'.kind = "unknown") =>
             /\ state'.errors = state.errors
             /\ state'.completed_steps = state.completed_steps
             /\ final_status' = final_status
             /\ pc' # "done"
       /\ TopEnded("unknown") =>
             /\ pc' = "loop"
             /\ current_index' = last'.index + 1
       /\ (Ended("top") /\ last.level = "top" /\ last.kind = "unknown") =>
             last'.index = last.index + 1
      ]_vars

\* an unknown action at index 0 has been passed over, with a step after it
C16_Witness ==
    /\ last.kind = "unknown"
    /\ last.level = "top"
    /\ last.index = 0
    /\ steps[1].action = UnknownAction
    /\ steps[1].on_error # None
    /\ pc = "loop"
    /\ current_index = 1
    /\ Len(steps) > 1
    /\ state.errors = <<>>
\* a call has just been made on the engine
Called(op) == call' # call /\ call'.op = op

\* C17: an exception raised by the variable-change callback or by the log
\* callback never propagates: the store or the step that triggered it ends
\* exactly as it does with a working callback, the variable holding the
\* new value, the filter event emitted when the key qualifies, the step's
\* outcome, completed_steps and errors the same.
C17_CallbackFailureAbsorbed ==
    [][/\ (Called("store") /\ call'.callback = "raises") =>
             /\ ~call'.raised
             /\ state'.variables[call'.key] = call'.value
             /\ (IsFilterKey(call'.key) /\ Len(events) < MaxEvents) =>
                   events' = Append(events, FilterEvent(call'.key, call'.value))
             /\ <<state'.variables, events'>> =
                   StoreNotifying(<<state.variables, events>>, call'.key,
                                  call'.value, "returns").ve
       /\ (Called("step") /\ call'.callback = "raises") =>
             /\ ~call'.escaped
             /\ state' = StepLogging(call'.step, call'.o, "returns").settled.state
             /\ events' = StepLogging(call'.step, call'.o, "returns").settled.events
             /\ call'.target = StepLogging(call'.step, call'.o, "returns").settled.target
             /\ call'.raised = StepLogging(call'.step, call'.o, "returns").settled.raised
      ]_vars

\* "candidate" was stored while the variable callback raised: it holds the
\* value and its filter event is the last of the report
C17_Witness ==
    /\ call.op = "store"
    /\ call.callback = "raises"
    /\ call.key = "candidate"
    /\ ~call.raised
    /\ state.variables["candidate"] = call.value
    /\ events # <<>>
    /\ events[Len(events)] = FilterEvent("candidate", call.value)

\* the keys of StoreKeys that contain, whatever the case of their letters,
\* one of date, period, year, client, company, column
Qualifying == {"Report_DATE", "candidate", "TaxYear"}

\* C18: store(key, value) sets variables[key] to value, replacing any prior
\* value and leaving every other key as it was, notifies the observer
\* once, and appends a filter event to the report if and only if the key
\* contains, case-insensitively, one of the six keywords.
C18_StoreSetsNotifiesFilters ==
    [][Called("store") =>
          /\ state'.variables = [state.variables EXCEPT ![call'.key] = call'.value]
          /\ call'.callback # "none" => call'.notified = 1
          /\ events' = IF call'.key \in Qualifying
                       THEN Keep(events, FilterEvent(call'.key, call'.value), MaxEvents)
                       ELSE events
      ]_vars

\* Report_DATE was stored twice, the second value replacing the first, the
\* observer notified, one filter event for each store
C18_Witness ==
    /\ call.op = "store"
    /\ call.n = 2
    /\ call.key = "Report_DATE"
    /\ call.notified = 1
    /\ state.variables["Report_DATE"] = call.value
    /\ Len(events) = 2
    /\ events[1].filter_name = "Report_DATE"
    /\ events[1].value # call.value
    /\ events[2] = FilterEvent("Report_DATE", call.value)

\* C19: ${NAME} resolves to the environment's value of NAME when the
\* environment defines it, whatever the store holds, otherwise to the
\* store's value, and to the empty string when neither defines it;
\* resolution never raises.
C19_EnvironmentThenStore ==
    call.op = "resolve" =>
       /\ ~call.raised
       /\ call.result =
             IF env_vars[call.name] # Unset THEN env_vars[call.name]
             ELSE IF state.variables[call.name] # Unset
             THEN state.variables[call.name]
             ELSE Text("empty", 0, 0, 0)

\* the first day of the month after, the last day of the month before
FirstOfNextMonth(dt) ==
    IF dt.m < 12 THEN [y |-> dt.y, m |-> dt.m + 1, d |-> 1]
    ELSE [y |-> dt.y + 1, m |-> 1, d |-> 1]

LastOfPrevMonth(dt) ==
    IF dt.m > 1 THEN [y |-> dt.y, m |-> dt.m - 1, d |-> DaysInMonth(dt.m - 1, dt.y)]
    ELSE [y |-> dt.y - 1, m |-> 12, d |-> 31]

RECURSIVE Shifted(_, _)
\* the date `days` days away on the calendar, a month at a time
Shifted(dt, days) ==
    IF days >= 0
    THEN IF dt.d + days <= DaysInMonth(dt.m, dt.y) THEN [dt EXCEPT !.d = @ + days]
         ELSE Shifted(FirstOfNextMonth(dt),
                      days - (DaysInMonth(dt.m, dt.y) - dt.d + 1))
    ELSE IF dt.d + days >= 1 THEN [dt EXCEPT !.d = @ + days]
         ELSE Shifted(LastOfPrevMonth(dt), days + dt.d)

\* a date in the requested format, written with strftime directives or with
\* the pattern letters yyyy, MM, dd; no format asks for the default
Rendered(dt, fmt) ==
    LET format == IF fmt = NoFormat THEN DefaultFormat ELSE fmt
    IN  [k \in 1..Len(format) |->
            CASE format[k] \in {"%d", "dd"} -> Num(2, dt.d)
              [] format[k] \in {"%m", "MM"} -> Num(2, dt.m)
              [] format[k] \in {"%Y", "yyyy"} -> Num(4, dt.y)
              [] format[k] = "%b" -> Mon(dt.m)
              [] OTHER -> Lit(format[k])]

\* "2024-03-31"
Example20240331 == <<Num(4, 2024), Lit("-"), Num(2, 3), Lit("-"), Num(2, 31)>>

\* C20: ${DATE_ADD:var:days[:fmt]} resolves to the date stored under var
\* shifted by the signed number of days, across month and year boundaries,
\* in the requested format, and to the empty string when var is unset or
\* no date; ${DATE_ADD:start:30:yyyy-MM-dd} with start = "01 Mar 2024"
\* gives "2024-03-31".
C20_DateAddShiftsAndRenders ==
    call.op = "date_add" =>
       /\ ~call.raised
       /\ call.result =
             IF _parse_date(state.variables[call.var_name]) # NoDate
             THEN Rendered(Shifted(_parse_date(state.variables[call.var_name]),
                                   call.days), call.fmt)
             ELSE <<>>
       /\ (/\ call.var_name = "start"
           /\ state.variables["start"] = Text("d b Y", 1, 3, 2024)
           /\ call.days = 30
           /\ call.fmt = PatternFormat) => call.result = Example20240331
\* the string holds "${" and, somewhere after it, "}"
HasPlaceholder(ps) ==
    \E i \in 1..Len(ps), j \in 1..Len(ps) :
       /\ i + 1 < j
       /\ IsLit(ps[i], "$")
       /\ IsLit(ps[i + 1], "{")
       /\ IsLit(ps[j], "}")

\* C21: resolve leaves its input as it is whenever it holds no ${...}
\* placeholder, whatever the environment and the store hold, hands back a
\* value that is no string as it is, and never changes the store.
C21_ResolveIdentityWithoutPlaceholder ==
    [][Called("resolve_value") =>
          /\ state' = state
          /\ env_vars' = env_vars
          /\ (call'.value.t # "str" \/ ~HasPlaceholder(call'.value.pieces)) =>
                /\ ~call'.raised
                /\ call'.result = call'.value
      ]_vars

\* "$start}" came back as it went in although the store holds `start`
C21_Witness ==
    /\ call.op = "resolve_value"
    /\ call.value = StrOf(<<"$", "start", "}">>)
    /\ call.result = call.value
    /\ state.variables["start"] # Unset
\* the columns the step requires
Required(columns) == {c.col : c \in RequiredSelectors(columns)}

\* C22: select-columns is idempotent: on a page whose checked set already
\* is the required set it clicks nothing, and after a run in which every
\* click succeeded the checked set is the required set (so a second run in
\* succession clicks nothing).
C22_SelectColumnsIdempotent ==
    call.op = "select_columns" =>
       /\ call.before = Required(call.columns) => call.clicks = 0
       /\ ~call.click_failed => call.checked = Required(call.columns)
\* a step of the workflow with one of these actions has just ended
TopEndedAction(actions) ==
    /\ Ended("top")
    /\ steps[last'.index + 1].action \in actions

\* C23: a download step (wait_for_download or click_and_download) is fatal
\* whenever the download never starts, the temporary file stays empty
\* through the polling or the final copy is empty, and in none of these
\* cases is downloaded_file stored or a download event recorded.
C23_DownloadFailureFatal ==
    [][(TopEndedAction({"wait_for_download", "click_and_download"}) /\ last'.failed) =>
          /\ last'.kind = "StepFailedError"
          /\ state'.variables["downloaded_file"] = state.variables["downloaded_file"]
          /\ \A i \in (Len(events) + 1)..Len(events') : events'[i].type # "download"
      ]_vars
\* C24: the name of a downloaded file and its client folder are a function of
\* the workflow's name, the company's name, the file extension and the stored
\* VAT period start and end: a call with the same five gives the same name
\* and folder whatever else the store holds, and the company part has none
\* of the characters < > : " / \ | ? *.
C24_FilenameDeterministic ==
    call.op = "format_download_filename" =>
        /\ \A k \in 1..Len(call.client_folder) :
              call.client_folder[k] \notin ForbiddenChars
        /\ LET n == Len(call.new_filename)
               m == Len(call.client_folder)
               ext == IF call.file_ext = "" THEN 0 ELSE 1
           IN  /\ n >= m + ext + 1
               /\ SubSeq(call.new_filename, n - ext - m + 1, n - ext) =
                     Lits(call.client_folder)
               /\ call.new_filename[n - ext - m] = Lit("_")
        /\ [new_filename |-> call.new_filename, client_folder |-> call.client_folder,
            subfolder |-> call.subfolder] \in
              {_format_download_filename(
                   [NoVariables EXCEPT !["vat_return_start_date"] = call.period_start,
                                       !["vat_return_end_date"] = call.period_end],
                   call.workflow_name, call.company_name, call.file_ext)}

\* a VAT download named again for a company whose name has characters to
\* remove, with both dates stored and another variable changed in between
C24_Witness ==
    /\ call.op = "format_download_filename"
    /\ call.again
    /\ call.workflow_name = "vat_returns"
    /\ ~Falsy(call.period_start) /\ ~Falsy(call.period_end)
    /\ \E k \in 1..Len(call.company_name) : call.company_name[k] \in ForbiddenChars
    /\ Len(call.client_folder) < Len(call.company_name)
    /\ call.company # Unset
    /\ call.new_filename =
          <<Lit("1"), Lit(" "), Lit("VAT"), Lit("_"), Num(2, 1), Num(2, 4),
            Num(4, 2024), Lit("-"), Num(2, 30), Num(2, 6), Num(4, 2024), Lit("_"),
            Lit("A"), Lit("B"), Lit("C"), Lit(".xlsx")>>
\* the item the for loop of either handler is at
ItemInFlight ==
    IF loop.kind = "loop_vat_returns" THEN loop.to_process[loop.pos + 1]
    ELSE loop.rows[loop.indices[loop.pos + 1] + 1]

\* the 1-based place in sub_steps of the first sub-step with this id, 0 when
\* there is none
SubIndex(id) ==
    LET sub_steps == loop.step.sub_steps
        places == {k \in 1..Len(sub_steps) : sub_steps[k].id = id}
    IN  IF places = {} THEN 0 ELSE CHOOSE k \in places : \A j \in places : k <= j

\* C25: inside a loop item the sub-steps follow the control flow of the
\* steps of a workflow: when a sub-step returns a jump target that names a
\* sub-step, the next sub-step executed is the one with that id and not the
\* next in sequence.
C25_SubStepsFollowJumps ==
    [][(Ended("sub") /\ last'.kind = "return" /\ SubIndex(last'.target) # 0) =>
          /\ loop'.at = "sub_steps"
          /\ loop'.sub = SubIndex(last'.target)]_vars

\* C26: in both loop handlers, when a sub-step of an item fails with
\* StepFailedError, a navigation back to the list is attempted after the
\* failure and before the next item is triggered.
C26_RecoveryAfterFailedItem ==
    [][(/\ pc = "in_loop" /\ pc' = "in_loop"
        /\ loop.at = "after_sub_steps" /\ loop.sub_step_failed
        /\ loop'.pos = loop.pos + 1) => loop'.navigated_back]_vars

\* C27: for every loop item whose sub-steps run, the period label, the start
\* date, the end date and the progress counter are in the store with that
\* item's values when a sub-step of it is dispatched.
C27_ItemVariablesDescribeItem ==
    [][Ended("sub") =>
          LET item == ItemInFlight
              n == IF loop.kind = "loop_vat_returns" THEN Len(loop.to_process)
                   ELSE Len(loop.indices)
          IN  /\ state.variables["vat_return_period"] =
                    [t |-> "range", start |-> item.startDate, end |-> item.endDate]
              /\ state.variables["vat_return_start_date"] = item.startDate
              /\ state.variables["vat_return_end_date"] = item.endDate
              /\ state.variables["vat_return_progress"] =
                    [t |-> "progress", i |-> loop.pos + 1, n |-> n]]_vars
\* C28: a manual-intervention step that waits for a URL is fatal when the
\* wait times out: the timeout ends the run as failed and is recorded as a
\* fatal error.
C28_ManualTimeoutFatal ==
    [][(/\ TopEndedAction({"manual_intervention"})
        /\ steps[last'.index + 1].wait_for_url
        /\ last'.failed) =>
          /\ last'.kind = "StepFailedError"
          /\ final_status' = "failed"
          /\ state'.errors =
                Keep(state.errors, [step |-> last'.id, fatal |-> TRUE], MaxLog)
      ]_vars

\* C29: wait_for_url and wait_for_selector return None when a pattern of
\* the list matches, and the run goes on at the next index. When none
\* matches within the timeout a step that is not optional is fatal; for an
\* optional step the next step dispatched is the first step with the id
\* on_timeout, or the next index when on_timeout is absent or names no step.
C29_WaitTimeoutContract ==
    [][TopEndedAction({"wait_for_url", "wait_for_selector"}) =>
          LET step == steps[last'.index + 1]
              named == {i \in 0..(Len(steps) - 1) : IsFirstIndex(step.on_timeout, i)}
          IN  /\ last'.kind \in {"return", "StepFailedError"}
              /\ ~last'.failed =>
                    /\ last'.target = None
                    /\ current_index' = current_index + 1
                    /\ final_status' = final_status
              /\ (last'.failed /\ ~step.optional) =>
                    /\ last'.kind = "StepFailedError"
                    /\ pc' = "done"
                    /\ final_status' = "failed"
              /\ (last'.failed /\ step.optional) =>
                    /\ last'.kind = "return"
                    /\ pc' = "loop"
                    /\ final_status' = final_status
                    /\ state'.errors = state.errors
                    /\ IF named = {} THEN current_index' = current_index + 1
                       ELSE current_index' \in named
      ]_vars

\* an optional wait_for_selector timed out and the run is at the step its
\* on_timeout names, two places on
C29_Witness ==
    /\ Len(steps) = 3
    /\ steps[1].action = "wait_for_selector"
    /\ steps[1].optional
    /\ steps[1].on_timeout = "C"
    /\ steps[1].on_error = None
    /\ last.level = "top" /\ last.index = 0 /\ last.failed
    /\ last.target = "C"
    /\ pc = "loop"
    /\ current_index = 2
\* the condition matches the URL the page is at: its substring occurs in
\* it, in whatever case, or its regular expression is found in it
MatchesUrl(condition, url) ==
    \/ condition.contains # <<>> /\ Contains(Lower(url), Lower(condition.contains))
    \/ condition.matches # <<>> /\ Search(condition.matches, url)

\* C30: check_url returns the target of the first condition, in declared
\* order, that matches the current URL by substring or by regular
\* expression, and the default target when none matches; it changes no
\* variable of the store.
C30_CheckUrlFirstMatch ==
    call.op = "check_url" =>
        LET matching == {k \in 1..Len(call.conditions) :
                            MatchesUrl(call.conditions[k], call.url)}
        IN  /\ IF matching = {} THEN call.result = call.default_step
               ELSE \E k \in matching :
                       /\ \A j \in matching : k <= j
                       /\ call.result = call.conditions[k].goto_step
            /\ state.variables = NoVariables
\* chain t passes the head of the for loops: it starts the link it is at, or
\* skips it and is at the next
StartsLink(t) ==
    /\ app.tasks[t].pc = "links"
    /\ app'.tasks[t].pc \in {"links", "in_link"}
    /\ app'.tasks[t] # app.tasks[t]

\* C31: the running flag is checked before every workflow link and before
\* every client iteration: a chain passes the head of its loops only with
\* the flag set, and the chain a stop request has been made for starts no
\* further link and no further client iteration.
C31_StoppedChainStartsNothing ==
    [][\A t \in Tasks :
          /\ StartsLink(t) => (app.workflow_running /\ ~app.tasks[t].stopped)
          /\ app.tasks[t].stopped =>
                /\ app'.tasks[t].pc # "in_link" \/ app.tasks[t].pc = "in_link"
                /\ app'.tasks[t].client_idx = app.tasks[t].client_idx
                /\ app'.tasks[t].i = app.tasks[t].i]_vars

\* a chain of two links and two clients was stopped in its first link and
\* has ended without starting another
C31_Witness ==
    \E t \in Tasks :
       /\ app.tasks[t].stopped
       /\ app.tasks[t].pc = "ended"
       /\ Len(app.tasks[t].workflow_paths) = 2
       /\ Len(app.tasks[t].clients_to_process) = 2
       /\ app.tasks[t].client_idx = 1 /\ app.tasks[t].i = 1
       /\ app.tasks[t].context = "closed"
\* C32: a stop request never interrupts a step mid-action: the step in
\* flight when the stop is requested runs to completion, its handler
\* returning or raising on its own and its outcome being recorded, before
\* the chain ends.
C32_StepNotInterrupted ==
    [][\A t \in Tasks :
          (app.tasks[t].pc = "in_step" /\ app'.tasks[t].pc # "in_step") =>
             app'.tasks[t].pc \in {"links", "fail_log"}]_vars
\* C33: there is one active page handle per chain: after a click with the
\* new-tab flag has switched to the tab it opened, every later step acts on
\* that tab, in the same link and in every later link, and none acts on a
\* tab left behind.
C33_LaterStepsOnNewTab ==
    call.op \in {"step", "click_new_tab"} =>
        call.operated = (IF call.op = "step" THEN call.tabs ELSE call.tabs - 1)
\* a step, of the workflow or of a loop item, has just ended
StepEnded == Ended("top") \/ Ended("sub")

\* the ids in completed_steps
Completed == {state.completed_steps[k] : k \in 1..Len(state.completed_steps)}

\* C34 as stated: completed_steps is append-only and holds, in dispatch
\* order, the ids of exactly the dispatched steps, sub-steps included, whose
\* handler returned without raising: a step's id is never appended after
\* the id of a step dispatched later than it.
C34_CompletedInDispatchOrder ==
    [][/\ StepEnded =>
             state'.completed_steps =
                IF last'.kind = "return"
                THEN Keep(state.completed_steps, last'.id, MaxLog)
                ELSE state.completed_steps
       /\ ~StepEnded => state'.completed_steps = state.completed_steps
       /\ (Ended("top") /\ last'.kind = "return" /\ loop # NoLoop) =>
             \A k \in 1..Len(loop.step.sub_steps) :
                loop.step.sub_steps[k].id \notin Completed
      ]_vars

\* C34: completed_steps is append-only and holds, in the order in which
\* their handlers returned, the ids of exactly the dispatched steps,
\* sub-steps included, whose handler returned without raising: steps that
\* returned a jump target and optional steps that absorbed a failure are in
\* it, steps of an unknown action and steps whose handler raised are not. A
\* loop step's id follows the ids of its sub-steps.
C34_CompletedInReturnOrder ==
    [][/\ StepEnded =>
             state'.completed_steps =
                IF last'.kind = "return"
                THEN Keep(state.completed_steps, last'.id, MaxLog)
                ELSE state.completed_steps
       /\ ~StepEnded => state'.completed_steps = state.completed_steps
      ]_vars

\* a loop has ended after both sub-steps of its one item returned
C34_Witness ==
    /\ Len(steps) = 1
    /\ steps[1].action = "loop_elements"
    /\ pc = "loop"
    /\ last.level = "top" /\ last.id = "A" /\ last.kind = "return"
    /\ dispatched = <<[id |-> "A", level |-> "top"], [id |-> "S1", level |-> "sub"],
                      [id |-> "S2", level |-> "sub"]>>
    /\ state.completed_steps = <<"S1", "S2", "A">>
\* the steps of the workflow dispatched so far, as far as the history goes
TopDispatches == Cardinality({k \in 1..Len(dispatched) : dispatched[k].level = "top"})

\* C35: when every jump target of a definition (on_error, on_timeout,
\* goto_step, default_step) names a step strictly after the step declaring
\* it, each step of the workflow is dispatched at most once and the run ends
\* after at most len(steps) dispatches, whatever the handlers return or
\* raise: after a step the run is over or at a later index.
C35_ForwardRunsDispatchOnce ==
    [][ForwardOnly =>
          /\ Ended("top") => (pc' = "done" \/ current_index' > last'.index)
          /\ ~Ended("top") => current_index' = current_index
          /\ current_index' <= Len(steps)
          /\ TopDispatches' <= Len(steps)]_vars

\* a run of three steps with forward targets that took no jump and ended
\* after three dispatches
C35_Witness ==
    /\ ForwardOnly
    /\ pc = "done"
    /\ final_status = "completed"
    /\ Len(steps) = 3
    /\ steps[1].on_error = "C"
    /\ dispatched = <<[id |-> "A", level |-> "top"], [id |-> "B", level |-> "top"],
                      [id |-> "C", level |-> "top"]>>
\* state.errors holds an entry marked fatal
HasFatalEntry(errors) == \E k \in 1..Len(errors) : errors[k].fatal

\* C36: a StepFailedError raised by a sub-step of a loop and swallowed at the
\* item boundary appends a step event with status error and an error event
\* with fatal = true to the report, adds no entry to state.errors and leaves
\* the final status as it is; only a StepFailedError of a step of the
\* workflow adds a fatal entry and sets the status failed, so state.errors
\* holds a fatal entry if and only if the status is failed.
C36_SwallowedFailureReportedOnly ==
    [][/\ (Ended("sub") /\ last'.kind = "StepFailedError") =>
             /\ events' =
                   Keep(Keep(events, [type |-> "step", step_id |-> last'.id,
                                      action |-> loop.step.sub_steps[loop.sub].action,
                                      status |-> "error"], MaxEvents),
                        [type |-> "error", step_id |-> last'.id, fatal |-> TRUE],
                        MaxEvents)
             /\ state'.errors = state.errors
             /\ final_status' = final_status
             /\ pc' = "in_loop"
       /\ IF TopEnded("StepFailedError")
          THEN /\ final_status' = "failed"
               /\ state'.errors =
                     Keep(state.errors, [step |-> last'.id, fatal |-> TRUE], MaxLog)
          ELSE /\ final_status' # "failed" \/ final_status = "failed"
               /\ \/ state'.errors = state.errors
                  \/ /\ Len(state.errors) < MaxLog
                     /\ Len(state'.errors) = Len(state.errors) + 1
                     /\ SubSeq(state'.errors, 1, Len(state.errors)) = state.errors
                     /\ ~state'.errors[Len(state'.errors)].fatal
       /\ Len(state.errors) < MaxLog =>
             (HasFatalEntry(state.errors) <=> final_status = "failed")
      ]_vars

\* a link that ended completed with a fatal error event of a sub-step in its
\* report and no fatal entry in state.errors
C36_Witness ==
    /\ pc = "done"
    /\ final_status = "completed"
    /\ ~HasFatalEntry(state.errors)
    /\ \E k \in 1..Len(events) :
          events[k] = [type |-> "error", step_id |-> "S1", fatal |-> TRUE]
    /\ events[Len(events)] = [type |-> "workflow_end", status |-> "completed"]
\* the chain is between the heads of its loops and the end of a link
ExecutingLinks(t) == app.tasks[t].pc \in {"links", "in_link", "in_step"}

\* chain t clears workflow_running in its finally clause
CleanupClearsFlag(t) ==
    /\ app.workflow_running /\ ~app'.workflow_running
    /\ app.tasks[t].pc # "finally_idle" /\ app'.tasks[t].pc = "finally_idle"

\* chain t reads workflow_running as false at the head of a loop with a
\* link still to run
ObservesFlagFalse(t) ==
    /\ Runs(t, "links")
    /\ app.tasks[t].client_idx <= Len(app.tasks[t].clients_to_process)
    /\ ~app.workflow_running
    /\ app'.tasks[t].pc # "links"

\* C37: under every interleaving of stop and start requests the cleanup of
\* a chain never clears the running flag while another chain is executing
\* links, and a chain reads the flag as false at the head of a loop only
\* when a stop was requested for that chain.
C37_FlagBelongsToActiveChain ==
    [][\A t \in Tasks :
          /\ CleanupClearsFlag(t) =>
                \A u \in Tasks \ {t} : ~ExecutingLinks(u)
          /\ ObservesFlagFalse(t) => app.tasks[t].stopped]_vars
\* engine.run(...) of a link of chain t is over and the chain is back at the
\* head of the inner loop
LinkOver(t) == app.tasks[t].pc = "in_step" /\ app'.tasks[t].pc = "links"

C39_FreshStatePerLink ==
    call.at = "link" =>
       /\ \A k \in Keys \ {"selected_client"} :
             state.variables[k] # Unset => k \in call.stored
       /\ state.variables["selected_client"] = call.client
       /\ call.op = "run" =>
             /\ state.completed_steps = <<>> /\ state.errors = <<>>
             /\ \A k \in Keys \ {"selected_client"} : state.variables[k] = Unset
       /\ (call.op = "resolve" /\ call.name \in LinkKeys \ call.stored) =>
             call.result = Text("empty", 0, 0, 0)

\* the second link resolves company_name, which the first link stored and
\* the second has not
C39_Witness ==
    /\ call.at = "link" /\ call.link = 2
    /\ call.op = "resolve" /\ call.name = "company_name"
    /\ "company_name" \in call.earlier \ call.stored
    /\ call.client = Str("Client A")
\* a loop handler has gone through its head: the filter date is resolved
LoopEntered(kind) == loop.kind = None /\ loop'.kind = kind

\* filter_date_from of the loop entered is set and resolves to the empty
\* text or to a text that is no date
FilterUnusable ==
    /\ loop'.step.filter_date_from # None
    /\ ResolveName(loop'.step.filter_date_from) \in
          {Text("empty", 0, 0, 0), Text("other", 0, 0, 0)}

\* the 31 Feb 2024 of the page: a text of the shape of a date that is none
NoSuchDay == Text("d b Y", 31, 2, 2024)

\* C40: the date filter of both loops fails open: a filter_date_from that
\* resolves to an empty or unparsable text gives no filter date, and with no
\* filter date, or with an own date that does not parse, an item is not
\* skipped but kept for processing, and neither an error nor a skip is
\* recorded on that account.
C40_DateFilterFailsOpen ==
    [][/\ (LoopEntered("loop_vat_returns") \/ LoopEntered("loop_elements")) =>
             /\ FilterUnusable => loop'.filter_date = NoDate
             /\ events' = events
             /\ state'.errors = state.errors
       /\ LoopEntered("loop_vat_returns") =>
             \A k \in 1..Len(loop'.found) :
                (loop'.filter_date = NoDate \/ loop'.found[k].startDate = NoSuchDay) =>
                   /\ Holds(loop'.to_process, loop'.found[k])
                   /\ ~Holds(loop'.skipped, loop'.found[k])
       /\ ( /\ loop.kind = "loop_elements" /\ loop'.kind = "loop_elements"
            /\ loop.at = "items" /\ loop' # loop
            /\ \/ loop.filter_date = NoDate
               \/ loop.rows[loop.indices[loop.pos + 1] + 1].startDate = NoSuchDay ) =>
             /\ loop'.skipped = loop.skipped
             /\ loop'.pos = loop.pos + 1 => loop'.trail[Len(loop'.trail)].fate # "skipped"
             /\ events' = events
             /\ state'.errors = state.errors]_vars

\* a VAT loop with the filter date 01 Apr 2024 is at the sub-steps of the
\* item whose own date is 31 Feb 2024
C40_Witness ==
    /\ pc = "in_loop"
    /\ loop.kind = "loop_vat_returns"
    /\ loop.filter_date = [y |-> 2024, m |-> 4, d |-> 1]
    /\ loop.at = "sub_steps"
    /\ loop.pos < Len(loop.to_process)
    /\ loop.to_process[loop.pos + 1].startDate = NoSuchDay
    /\ loop.skipped # <<>>
    /\ state.errors = <<>>
====
